---------------------------- MODULE Spec2Model ----------------------------
(***************************************************************************)
(* A model of cargo-mcp: the TTL/LRU cache (src/src/cache.rs), the fuzzy   *)
(* search over a built item graph (cargo-mcp/src/providers/rustdoc.rs) and *)
(* the crates.io registry client (src/src/providers/crates_io.rs).         *)
(*                                                                         *)
(* Each subsystem has its own specification over the shared variables:     *)
(*   CacheSpec     the cache under insert / get / cleanup and passing time *)
(*   SearchSpec    Crate::search on a drawn crate, query and max_results   *)
(*   RegistrySpec  calls of the registry client against the local cache    *)
(*                 of the index and the network                            *)
(*   DocsSpec      concurrent tool calls through RustdocProvider: the      *)
(*                 acquisition pipeline, its cache and generate_rustdoc_json*)
(*   DocsLiveSpec  concurrent search_crate calls under fair scheduling     *)
(*   GraphSpec     Crate::from_crate building the item graph of a document *)
(*                 twice, its maps iterated in any order                   *)
(*   RouteSpec     Server::read_resource choosing the handler of a URI     *)
(***************************************************************************)
EXTENDS Integers, Sequences, FiniteSets, TLC

(***************************************************************************)
(* Bounds of the model.                                                    *)
(***************************************************************************)
\* the wall clock runs 0..MaxTime
MaxTime == 3
\* Cache::new is given a max_size in 0..MaxCap
MaxCap == 2
\* Cache::new is given a ttl in 0..MaxTtl
MaxTtl == 2

Keys == {"k1", "k2", "k3"}
Values == {"v1", "v2"}

VARIABLES
    \* ---- Cache<T> (src/src/cache.rs) ----
    entries,    \* Cache.entries: the map key -> CacheEntry, a function on the stored keys
    ttl,        \* Cache.ttl
    max_size,   \* Cache.max_size
    now,        \* SystemTime::now()
    op,         \* the last completed call: its name, arguments, time and result
    pre,        \* Cache.entries as it was when op began
    lastIns,    \* per key, the value of the most recent insert(key, value)
    run,        \* the keys inserted so far, in order, while the calls so far are only
                \* inserts of distinct keys at strictly increasing times; else Broken
    \* ---- Crate::search (cargo-mcp/src/providers/rustdoc.rs) ----
    krate,      \* the Crate searched: its name and its items in the order
                \* self.items.values() yields them
    query,      \* the query, relative to the package
    max_results,\* the max_results argument, an Option<usize>
    spc,        \* which searches have returned
    res,        \* what search(query, max_results) returned
    resQ,       \* what search(name + "::" + query, max_results) returned
    \* ---- CratesIoProvider (src/src/providers/crates_io.rs) ----
    indexVersions, \* the versions the registry lists for a crate it has
    disk,       \* the names whose entry the local on-disk cache of the index holds
    disk0,      \* disk when the current call began
    req,        \* the current call: its kind, crate name and version argument
    rpc,        \* where the call is: "idle" (returned) or "net" (in fetch_crate)
    vi,         \* fetch_crate: the place of the next name variant to request
    rlog,       \* the cache lookups and network requests of the call, in order
    fetched,    \* what fetch returned
    out,        \* what the call returned
    ncalls,     \* the number of calls so far
    \* ---- RustdocProvider and the tools (cargo-mcp/src/providers/rustdoc.rs, server.rs) ----
    docs_cache, \* RustdocProvider.cache: the map cache_key -> Arc<Crate>
    lock,       \* the holder of the Mutex around docs_cache, or Free
    dpc,        \* per task, where its call is
    dreq,       \* per task, the call: tool, crate name, version, generated document
    dfx,        \* per task, what the call has done outside the process so far
    dret,       \* per task, what the provider returned to the tool
    tret,       \* per task, the CallToolResult of the tool
    dheld,      \* per task, whether docs_cache held the key when the call looked
    inserts,    \* the inserts into docs_cache so far, in order
    res_cache,  \* Server.doc_cache and Server.info_cache: the keys they hold
    dcalls,     \* the number of calls started
    \* ---- Crate::from_crate (cargo-mcp/src/providers/rustdoc.rs) ----
    rdoc,       \* the rustdoc_types::Crate being built from: root, index, paths
    phase,      \* where from_crate is: "first", "second", "extend", "built"
    pending,    \* the ids the running loop has yet to visit
    processed_items,  \* processed.items
    processed_paths,  \* processed.paths
    additional_items, \* additional_items
    built,      \* the item maps of the builds finished so far, in order
    \* ---- Server::read_resource (src/src/server.rs) ----
    uri,        \* request.uri: a sequence of delimiters and words
    routed      \* the handler read_resource chose, with its arguments

cacheVars == <<entries, ttl, max_size, now, op, pre, lastIns, run>>

searchVars == <<krate, query, max_results, spc, res, resQ>>

registryVars == <<indexVersions, disk, disk0, req, rpc, vi, rlog, fetched, out, ncalls>>

docsVars == <<docs_cache, lock, dpc, dreq, dfx, dret, tret, dheld, inserts, res_cache, dcalls>>

graphVars == <<rdoc, phase, pending, processed_items, processed_paths, additional_items,
               built>>

routeVars == <<uri, routed>>

vars == <<cacheVars, searchVars, registryVars, docsVars, graphVars, routeVars>>

(***************************************************************************)
(* Option<T>                                                               *)
(***************************************************************************)
None == [some |-> FALSE, val |-> "none"]
Some(v) == [some |-> TRUE, val |-> v]

NoOp == [name |-> "new", key |-> "none", value |-> "none", at |-> 0, ret |-> None,
         follows |-> None]

(***************************************************************************)
(* Strings: sequences of one-character strings.                            *)
(***************************************************************************)
Sep == <<":", ":">>

\* str::starts_with
StartsWith(s, pat) == Len(s) >= Len(pat) /\ SubSeq(s, 1, Len(pat)) = pat

\* str::trim_start_matches: the pattern is removed from the front as often
\* as it occurs there
RECURSIVE TrimStartMatches(_, _)
TrimStartMatches(s, pat) ==
    IF pat # <<>> /\ StartsWith(s, pat)
    THEN TrimStartMatches(SubSeq(s, Len(pat) + 1, Len(s)), pat)
    ELSE s

\* [String]::join("::")
RECURSIVE JoinPath(_)
JoinPath(segs) ==
    IF segs = <<>> THEN <<>>
    ELSE IF Len(segs) = 1 THEN segs[1]
    ELSE segs[1] \o Sep \o JoinPath(Tail(segs))

Min(a, b) == IF a <= b THEN a ELSE b
Max(a, b) == IF a >= b THEN a ELSE b

(***************************************************************************)
(* Cache<T>                                                                *)
(***************************************************************************)
EmptyMap == [k \in {} |-> None]

CacheEntry(value, t) == [data |-> value, timestamp |-> t]

\* HashMap::insert
MapInsert(cache, key, entry) ==
    [k \in DOMAIN cache \cup {key} |-> IF k = key THEN entry ELSE cache[k]]

\* HashMap::remove
MapRemove(cache, key) == [k \in DOMAIN cache \ {key} |-> cache[k]]

\* is_valid with the bound included: an entry of age ttl still counts as valid
IsValidInclusive(entry, t) ==
    IF t >= entry.timestamp THEN t - entry.timestamp <= ttl ELSE FALSE

\* Cache::is_valid: duration_since fails when the entry's timestamp is later
\* than the clock, and the entry is then not valid
IsValid(entry, t) ==
    IF t >= entry.timestamp THEN t - entry.timestamp < ttl ELSE FALSE

\* Cache::get, the value returned
GetResult(cache, key, t) ==
    IF key \in DOMAIN cache /\ IsValid(cache[key], t)
    THEN Some(cache[key].data)
    ELSE None

\* get that drops the entry it finds stale
GetStoreDroppingStale(cache, key, t) ==
    IF key \in DOMAIN cache /\ ~IsValid(cache[key], t)
    THEN [k \in DOMAIN cache \ {key} |-> cache[k]]
    ELSE cache

\* Cache::get, the map it leaves: the lock guard is not mutable
GetStore(cache, key, t) == cache

\* an eviction that starts only past the capacity
IsOverFull(cache) == Cardinality(DOMAIN cache) > max_size

\* Cache::insert, the test that starts an eviction
IsFull(cache) == Cardinality(DOMAIN cache) >= max_size

\* eviction by max_by_key: the newest entry goes
NewestKeys(cache) ==
    {k \in DOMAIN cache : \A j \in DOMAIN cache : cache[k].timestamp >= cache[j].timestamp}

\* Cache::insert, the keys min_by_key may return: the map is iterated in an
\* arbitrary order, so any key with the least timestamp
OldestKeys(cache) ==
    {k \in DOMAIN cache : \A j \in DOMAIN cache : cache[k].timestamp <= cache[j].timestamp}

\* Cache::insert, the map after the eviction step removed `victim`
InsertStore(cache, victim, key, value, t) ==
    MapInsert(IF victim \in DOMAIN cache THEN MapRemove(cache, victim) ELSE cache,
              key, CacheEntry(value, t))

\* Cache::insert, the victims the eviction step can choose ("none": no eviction)
Victims(cache) ==
    IF IsFull(cache) /\ DOMAIN cache # {} THEN OldestKeys(cache) ELSE {"none"}

\* cleanup that retains the entries that are not valid
RetainStale(cache, t) == [k \in {j \in DOMAIN cache : ~IsValid(cache[j], t)} |-> cache[k]]

\* Cache::cleanup: retain the valid entries
Retain(cache, t) == [k \in {j \in DOMAIN cache : IsValid(cache[j], t)} |-> cache[k]]

CacheInit ==
    /\ entries = EmptyMap
    /\ ttl \in 0..MaxTtl
    /\ max_size \in 0..MaxCap
    /\ now = 0
    /\ op = NoOp
    /\ pre = EmptyMap
    /\ lastIns = EmptyMap
    /\ run = <<>>

\* the cache of a specification that does not exercise it
CacheIdle ==
    /\ entries = EmptyMap
    /\ ttl = 0
    /\ max_size = 0
    /\ now = 0
    /\ op = NoOp
    /\ pre = EmptyMap
    /\ lastIns = EmptyMap
    /\ run = <<>>

Broken == <<"broken">>

SeqRange(q) == {q[i] : i \in 1..Len(q)}

\* run after insert(key, _): extended when the run is intact, the key is new to
\* it and the clock is past every stored timestamp (the previous insert's)
RunAfterInsert(key) ==
    IF /\ run # Broken
       /\ key \notin SeqRange(run)
       /\ \A k \in DOMAIN entries : entries[k].timestamp < now
    THEN Append(run, key)
    ELSE Broken

Insert(key, value) ==
    /\ \E victim \in Victims(entries) :
          entries' = InsertStore(entries, victim, key, value, now)
    /\ op' = [name |-> "insert", key |-> key, value |-> value, at |-> now, ret |-> None,
              follows |-> None]
    /\ pre' = entries
    /\ lastIns' = MapInsert(lastIns, key, value)
    /\ run' = RunAfterInsert(key)
    /\ UNCHANGED <<ttl, max_size, now>>
    /\ UNCHANGED <<searchVars, registryVars, docsVars, graphVars, routeVars>>

\* the value of insert(key, v) when that insert is the call completed just
\* before, with no time passed since
JustInserted(key) ==
    IF op.name = "insert" /\ op.key = key /\ op.at = now THEN Some(op.value) ELSE None

Get(key) ==
    /\ entries' = GetStore(entries, key, now)
    /\ op' = [name |-> "get", key |-> key, value |-> "none", at |-> now,
              ret |-> GetResult(entries, key, now), follows |-> JustInserted(key)]
    /\ pre' = entries
    /\ run' = Broken
    /\ UNCHANGED <<ttl, max_size, now, lastIns>>
    /\ UNCHANGED <<searchVars, registryVars, docsVars, graphVars, routeVars>>

Cleanup ==
    /\ entries' = Retain(entries, now)
    /\ op' = [name |-> "cleanup", key |-> "none", value |-> "none", at |-> now, ret |-> None,
              follows |-> None]
    /\ pre' = entries
    /\ run' = Broken
    /\ UNCHANGED <<ttl, max_size, now, lastIns>>
    /\ UNCHANGED <<searchVars, registryVars, docsVars, graphVars, routeVars>>

\* time passes between two calls (the tests' sleep)
Tick ==
    /\ now < MaxTime
    /\ now' = now + 1
    /\ UNCHANGED <<entries, ttl, max_size, op, pre, lastIns, run>>
    /\ UNCHANGED <<searchVars, registryVars, docsVars, graphVars, routeVars>>

CacheNext ==
    \/ \E key \in Keys, value \in Values : Insert(key, value)
    \/ \E key \in Keys : Get(key)
    \/ Cleanup
    \/ Tick

(***************************************************************************)
(* strsim::jaro_winkler, as a fraction <<numerator, denominator>>.         *)
(* (strsim 0.11: the Winkler bonus applies above 0.7, for a common prefix   *)
(* of at most 4 characters.)                                               *)
(*                                                                         *)
(* An intermediate value that is used more than once is bound by           *)
(* CHOOSE r \in {body : x \in {value}} : TRUE, which evaluates it once.     *)
(***************************************************************************)
\* the flagged positions of b after the characters i..Len(a) of a looked for
\* their match: a[i] takes the first unflagged equal character of b within
\* the search range
RECURSIVE JaroFlags(_, _, _, _, _)
JaroFlags(a, b, i, aflags, bflags) ==
    IF i > Len(a) THEN [a |-> aflags, b |-> bflags]
    ELSE LET range == Max(Max(Len(a), Len(b)) \div 2 - 1, 0)
             lo == Max(i - range, 1)
             hi == Min(Len(b), i + range)
             free == {j \in lo..hi : b[j] = a[i] /\ j \notin bflags}
             next == IF free = {}
                     THEN [a |-> aflags, b |-> bflags]
                     ELSE [a |-> aflags \cup {i},
                           b |-> bflags \cup {CHOOSE x \in free : \A y \in free : x <= y}]
         IN CHOOSE r \in {JaroFlags(a, b, i + 1, n.a, n.b) : n \in {next}} : TRUE

\* the flagged characters of s, in order
RECURSIVE Flagged(_, _, _)
Flagged(s, flags, i) ==
    IF i > Len(s) THEN <<>>
    ELSE IF i \in flags THEN <<s[i]>> \o Flagged(s, flags, i + 1)
    ELSE Flagged(s, flags, i + 1)

\* strsim::jaro, from the flags: m matches, t = transpositions / 2
JaroOfFlags(a, b, f) ==
    LET m == Cardinality(f.a)
        ma == Flagged(a, f.a, 1)
        mb == Flagged(b, f.b, 1)
        t == Cardinality({i \in 1..m : ma[i] # mb[i]}) \div 2
    IN IF m = 0 THEN <<0, 1>>
       ELSE <<m * m * Len(b) + m * m * Len(a) + (m - t) * Len(a) * Len(b),
              3 * Len(a) * Len(b) * m>>

\* strsim::jaro
Jaro(a, b) ==
    IF Len(a) = 0 /\ Len(b) = 0 THEN <<1, 1>>
    ELSE IF Len(a) = 0 \/ Len(b) = 0 THEN <<0, 1>>
    ELSE CHOOSE r \in {JaroOfFlags(a, b, f) : f \in {JaroFlags(a, b, 1, {}, {})}} : TRUE

\* the length of the common prefix of a and b, at most 4
RECURSIVE CommonPrefix(_, _, _)
CommonPrefix(a, b, i) ==
    IF i <= 4 /\ i <= Len(a) /\ i <= Len(b) /\ a[i] = b[i]
    THEN 1 + CommonPrefix(a, b, i + 1)
    ELSE 0

\* strsim::jaro_winkler, from the Jaro similarity
WinklerOf(a, b, sim) ==
    IF 10 * sim[1] > 7 * sim[2]
    THEN <<10 * sim[1] + CommonPrefix(a, b, 1) * (sim[2] - sim[1]), 10 * sim[2]>>
    ELSE sim

\* strsim::jaro_winkler
JaroWinkler(a, b) == CHOOSE r \in {WinklerOf(a, b, sim) : sim \in {Jaro(a, b)}} : TRUE

\* comparisons of scores
ScoreLess(x, y) == x[1] * y[2] < y[1] * x[2]
ScoreMax(x, y) == IF ScoreLess(x, y) THEN y ELSE x
\* score == 1.0
IsExact(x) == x[1] = x[2]
\* score < 1.0
BelowOne(x) == x[1] < x[2]

(***************************************************************************)
(* Item, Crate and Crate::search                                           *)
(***************************************************************************)
\* Item::from_summary: path, search key and name of the item with these path
\* components in the crate named crateName
FromSummary(id, segs, crateName) ==
    LET path == JoinPath(segs)
    IN [id |-> id,
        name |-> segs[Len(segs)],
        path |-> path,
        search |-> TrimStartMatches(TrimStartMatches(path, crateName), Sep)]

\* search, lines 332-334: the query without the package's name and separator
StripQuery(q, crateName) == TrimStartMatches(TrimStartMatches(q, crateName), Sep)

\* search, lines 340-342: the name is tried when the search key is no
\* perfect match
ScoreWithName(item, q, score) ==
    IF BelowOne(score)
    THEN CHOOSE r \in {ScoreMax(score, byName) : byName \in {JaroWinkler(item.name, q)}} : TRUE
    ELSE score

\* search, lines 337-342: the score of an item
Score(item, q) ==
    CHOOSE r \in {ScoreWithName(item, q, score) : score \in {JaroWinkler(item.search, q)}} : TRUE

\* max_results.unwrap_or(5)
DefaultMaxResults == 5
NoMax == [some |-> FALSE, val |-> 0]
UnwrapMax(m) == IF m.some THEN m.val ELSE DefaultMaxResults

\* search, line 356: res.score > 0.2
ClearsFloor(score) == 5 * score[1] > score[2]

\* search, lines 344-358: the two lists after the result r of one item
Collect(exact_matches, scored_matches, r) ==
    IF IsExact(r.score)
    THEN [exact |-> Append(exact_matches, r), scored |-> <<>>]
    ELSE IF exact_matches # <<>>
    THEN [exact |-> exact_matches, scored |-> scored_matches]
    ELSE IF ClearsFloor(r.score)
    THEN [exact |-> exact_matches, scored |-> Append(scored_matches, r)]
    ELSE [exact |-> exact_matches, scored |-> scored_matches]

\* search, lines 336-359: the two lists after the items from i on are visited
RECURSIVE SearchLoop(_, _, _, _, _)
SearchLoop(items, i, q, exact_matches, scored_matches) ==
    IF i > Len(items) THEN [exact |-> exact_matches, scored |-> scored_matches]
    ELSE CHOOSE r \in
            {SearchLoop(items, i + 1, q, l.exact, l.scored) :
                l \in {Collect(exact_matches, scored_matches, sr) :
                          sr \in {[score |-> Score(items[i], q), id |-> items[i].id]}}} : TRUE

\* a stable insertion of r into a list sorted by descending score
RECURSIVE InsertByScore(_, _)
InsertByScore(sorted, r) ==
    IF sorted = <<>> THEN <<r>>
    ELSE IF ScoreLess(Head(sorted).score, r.score) THEN <<r>> \o sorted
    ELSE <<Head(sorted)>> \o InsertByScore(Tail(sorted), r)

\* sort_by(|a, b| b.score.partial_cmp(&a.score)): stable, descending
RECURSIVE SortByScore(_)
SortByScore(list) ==
    IF list = <<>> THEN <<>>
    ELSE CHOOSE r \in
            {InsertByScore(sorted, list[Len(list)]) :
                sorted \in {SortByScore(SubSeq(list, 1, Len(list) - 1))}} : TRUE

\* truncate left out
TruncateNothing(list, n) == list

\* Vec::truncate
Truncate(list, n) == SubSeq(list, 1, Min(Len(list), n))

\* exact matches capped like fuzzy ones
FinishCappingExact(exact_matches, scored_matches, max) ==
    IF exact_matches # <<>> THEN Truncate(exact_matches, max)
    ELSE Truncate(SortByScore(scored_matches), max)

\* search, lines 361-369: what is returned from the two lists
Finish(exact_matches, scored_matches, max) ==
    IF exact_matches # <<>> THEN exact_matches
    ELSE Truncate(SortByScore(scored_matches), max)

\* Crate::search
Search(k, q, max) ==
    CHOOSE r \in
        {Finish(lists.exact, lists.scored, UnwrapMax(max)) :
            lists \in {SearchLoop(k.items, 1, stripped, <<>>, <<>>) :
                        stripped \in {StripQuery(q, k.name)}}} : TRUE

(***************************************************************************)
(* The searches of SearchSpec: a crate, a query and a max_results are      *)
(* drawn, then search(query) and search(name + "::" + query) are called.   *)
(***************************************************************************)
\* a small graph has at most MaxItems items
MaxItems == 3
\* max_results is None or Some(0..MaxResultsArg)
MaxResultsArg == 2

A == <<"a">>
B == <<"b">>
C == <<"c">>
AB == <<"a", "b">>
BA == <<"b", "a">>
BB == <<"b", "b">>

CrateNames == {A, AB}

\* the path components, below the crate's root, of the items a crate may hold;
\* an item's id is its place in this list
RelPaths == << <<>>, <<B>>, <<AB>>, <<B, A>>, <<A>>, <<B, B>>, <<BA>>, <<AB, B>> >>

Ids == 1..Len(RelPaths)

\* the first pass of Crate::from_crate for the ids in `order`, the order in
\* which items.values() then yields them
CrateOf(crateName, order) ==
    [name |-> crateName,
     items |-> [i \in 1..Len(order) |->
                  FromSummary(order[i], <<crateName>> \o RelPaths[order[i]], crateName)]]

IsInjective(f) == \A i, j \in DOMAIN f : f[i] = f[j] => i = j

SmallOrders == {f \in UNION {[1..n -> Ids] : n \in 0..MaxItems} : IsInjective(f)}

\* every item, in ascending and in descending order of id
FullOrders == {[i \in Ids |-> i], [i \in Ids |-> Len(RelPaths) + 1 - i]}

Crates == {CrateOf(n, f) : n \in CrateNames, f \in SmallOrders \cup FullOrders}

Queries == {<<>>, A, B, C, AB, BA, BB, B \o Sep \o A}

MaxResultsArgs == {NoMax} \cup {[some |-> TRUE, val |-> n] : n \in 0..MaxResultsArg}

\* name + "::" + query
Qualified(k, q) == k.name \o Sep \o q

SearchInit ==
    /\ krate \in Crates
    /\ query \in Queries
    /\ max_results \in MaxResultsArgs
    /\ spc = "start"
    /\ res = <<>>
    /\ resQ = <<>>

\* the search state of a specification that does not exercise it
SearchIdle ==
    /\ krate = [name |-> <<>>, items |-> <<>>]
    /\ query = <<>>
    /\ max_results = NoMax
    /\ spc = "idle"
    /\ res = <<>>
    /\ resQ = <<>>

SearchRelative ==
    /\ spc = "start"
    /\ res' = Search(krate, query, max_results)
    /\ spc' = "searched"
    /\ UNCHANGED <<krate, query, max_results, resQ>>
    /\ UNCHANGED <<cacheVars, registryVars, docsVars, graphVars, routeVars>>

SearchQualified ==
    /\ spc = "searched"
    /\ resQ' = Search(krate, Qualified(krate, query), max_results)
    /\ spc' = "done"
    /\ UNCHANGED <<krate, query, max_results, res>>
    /\ UNCHANGED <<cacheVars, registryVars, docsVars, graphVars, routeVars>>

SearchNext ==
    \/ SearchRelative
    \/ SearchQualified

(***************************************************************************)
(* CratesIoProvider: fetch, fetch_latest_version, fetch_features.          *)
(***************************************************************************)
\* a registry entry lists at most MaxVersions versions
MaxVersions == 2
\* at most MaxCalls calls are made
MaxCalls == 2

\* a run of '-' and '_' longer than Names::new takes
LongRun == "-_..._-"

\* a name of more separators than Names::new takes
ManySeparators == <<"a", LongRun, "b">>

\* the crate names asked for
AskedNames ==
    { <<"s">>,
      <<"a", "-", "b">>,
      <<"a", "_", "b">>,
      <<"a", "-", "b", "_", "c">>,
      ManySeparators }

\* the version strings of the index, and how semver parses and orders them
VersionStrings == {"1.0.0", "2.0.0", "2.1.0-rc"}
SemverRank == [v \in VersionStrings |->
                 IF v = "1.0.0" THEN 1 ELSE IF v = "2.0.0" THEN 2 ELSE 3]
SemverPre == [v \in VersionStrings |-> v = "2.1.0-rc"]
FeatureTable == [v \in VersionStrings |->
                   IF v = "1.0.0" THEN {"std"}
                   ELSE IF v = "2.0.0" THEN {"std", "derive"} ELSE {}]

\* the version arguments asked for
NoVersionArg == "none"
AskedVersions == {NoVersionArg, "1.0.0", "2.0.0", "9.9.9"}

\* crates_index::Version
VersionRecs ==
    {[vers |-> v, yanked |-> y, features |-> FeatureTable[v]] :
        v \in VersionStrings, y \in BOOLEAN}

\* the version lists of a registry entry: no version string twice
VersionLists ==
    {l \in UNION {[1..n -> VersionRecs] : n \in 0..MaxVersions} :
        \A i, j \in DOMAIN l : l[i].vers = l[j].vers => i = j}

ReplaceSeparators(name, c) ==
    [i \in 1..Len(name) |-> IF name[i] \in {"-", "_"} THEN c ELSE name[i]]

\* the elements of list, each kept where it first occurs
RECURSIVE Dedup(_)
Dedup(list) ==
    IF list = <<>> THEN <<>>
    ELSE LET front == Dedup(SubSeq(list, 1, Len(list) - 1))
             last == list[Len(list)]
         IN IF \E i \in 1..Len(front) : front[i] = last THEN front ELSE Append(front, last)

\* get_name_variants: Names::new(name) is Some
Formable(name) == \A i \in 1..Len(name) : name[i] # LongRun

\* get_name_variants: Names::new(name).take(3). Names yields the name, then
\* it with hyphens only, then with underscores only, then the other mixes,
\* none twice; for the names asked here the first three are these.
GetNameVariants(name) ==
    LET all == Dedup(<<name, ReplaceSeparators(name, "-"), ReplaceSeparators(name, "_")>>)
    IN SubSeq(all, 1, Min(Len(all), 3))

\* find_in_cache that looks up the name as given only
FindInCacheAsGiven(variants, cached) ==
    IF variants # <<>> /\ variants[1] \in cached THEN 1 ELSE 0

\* find_in_cache: the place of the first variant crate_from_cache finds, or 0
FindInCache(variants, cached) ==
    IF \E i \in 1..Len(variants) : variants[i] \in cached
    THEN CHOOSE i \in 1..Len(variants) :
            /\ variants[i] \in cached
            /\ \A j \in 1..(i - 1) : variants[j] \notin cached
    ELSE 0

\* the lookups find_in_cache makes: up to the first hit, or all
CacheLookups(variants, cached) ==
    LET hit == FindInCache(variants, cached)
        n == IF hit = 0 THEN Len(variants) ELSE hit
    IN [i \in 1..n |-> [src |-> "cache", name |-> variants[i],
                         outcome |-> IF i = hit THEN "hit" ELSE "miss"]]

\* update_cache that leaves the local cache as it was
ParseCacheResponseUnwritten(cached, name) == cached

\* update_cache: parse_cache_response(name, response, true) writes the entry
\* it parsed to the local cache
ParseCacheResponse(cached, name) == cached \cup {name}

NoName == <<>>
Pending == [status |-> "pending", name |-> NoName]
FetchOk(name) == [status |-> "ok", name |-> name]
FetchErr(kind) == [status |-> kind, name |-> NoName]

NoOut == [status |-> "pending", version |-> "none", features |-> {}]
OutOk(version, features) == [status |-> "ok", version |-> version, features |-> features]
OutErr(kind) == [status |-> kind, version |-> "none", features |-> {}]

\* an error of update_cache answered as if the variant were absent
PropagatedAsNotFound(kind) == FetchErr("NotFound")

\* fetch_crate, find_in_cache, fetch: `?` returns the error as it is
Propagated(kind) == FetchErr(kind)

\* highest_normal_version without the yanked filter
UnyankedOrNotPlaces(versions) ==
    {i \in 1..Len(versions) :
        /\ versions[i].vers \in VersionStrings
        /\ ~SemverPre[versions[i].vers]}

\* Crate::highest_normal_version: the places of the versions that are not
\* yanked, parse as semver and are no pre-release
NormalPlaces(versions) ==
    {i \in 1..Len(versions) :
        /\ ~versions[i].yanked
        /\ versions[i].vers \in VersionStrings
        /\ ~SemverPre[versions[i].vers]}

\* Crate::highest_normal_version: the place of the highest of them, or 0
HighestNormalVersion(versions) ==
    LET normal == NormalPlaces(versions)
    IN IF normal = {} THEN 0
       ELSE CHOOSE i \in normal :
               \A j \in normal : SemverRank[versions[j].vers] <= SemverRank[versions[i].vers]

\* a find that falls back to the first version listed
FindVersionOrFirst(versions, version) ==
    IF \E i \in 1..Len(versions) : versions[i].vers = version
    THEN CHOOSE i \in 1..Len(versions) : versions[i].vers = version
    ELSE IF versions # <<>> THEN 1 ELSE 0

\* versions().iter().find(|v| v.version() == version): the place found, or 0
FindVersion(versions, version) ==
    IF \E i \in 1..Len(versions) : versions[i].vers = version
    THEN CHOOSE i \in 1..Len(versions) :
            /\ versions[i].vers = version
            /\ \A j \in 1..(i - 1) : versions[j].vers # version
    ELSE 0

\* fetch_latest_version, after fetch returned the entry
LatestVersionOf(versions) ==
    LET i == HighestNormalVersion(versions)
    IN IF i = 0 THEN OutErr("NoVersions") ELSE OutOk(versions[i].vers, {})

\* fetch_features, after fetch returned the entry
FeaturesOf(versions, version) ==
    LET i == IF version # NoVersionArg
             THEN FindVersion(versions, version)
             ELSE HighestNormalVersion(versions)
    IN IF i = 0
       THEN (IF version # NoVersionArg THEN OutErr("VersionNotFound") ELSE OutErr("NoVersions"))
       ELSE OutOk(versions[i].vers, versions[i].features)

\* what the call returns once fetch has returned f: `?` passes an error on
Complete(r, f, versions) ==
    IF f.status # "ok" THEN OutErr(f.status)
    ELSE IF r.kind = "fetch" THEN OutOk("none", {})
    ELSE IF r.kind = "latest_version" THEN LatestVersionOf(versions)
    ELSE FeaturesOf(versions, r.version)

Kinds == {"fetch", "latest_version", "features"}

Calls ==
    {[kind |-> k, name |-> n, version |-> v] :
        k \in Kinds, n \in AskedNames, v \in AskedVersions}
    \ {c \in [kind : Kinds, name : AskedNames, version : AskedVersions] :
        c.kind # "features" /\ c.version # NoVersionArg}

NoCall == [kind |-> "none", name |-> NoName, version |-> NoVersionArg]

RegistryInit ==
    /\ indexVersions \in VersionLists
    /\ disk = {}
    /\ disk0 = {}
    /\ req = NoCall
    /\ rpc = "idle"
    /\ vi = 0
    /\ rlog = <<>>
    /\ fetched = Pending
    /\ out = NoOut
    /\ ncalls = 0

\* the registry state of a specification that does not exercise it
RegistryIdle ==
    /\ indexVersions = <<>>
    /\ disk = {}
    /\ disk0 = {}
    /\ req = NoCall
    /\ rpc = "idle"
    /\ vi = 0
    /\ rlog = <<>>
    /\ fetched = Pending
    /\ out = NoOut
    /\ ncalls = 0

\* a call begins: fetch runs find_in_cache, which fails at once when
\* get_name_variants does, and returns the first cached variant, or goes on
\* to fetch_crate
Call(c) ==
    /\ rpc = "idle"
    /\ ncalls < MaxCalls
    /\ IF ~Formable(c.name)
       THEN /\ rlog' = <<>>
            /\ fetched' = Propagated("InvalidName")
            /\ out' = Complete(c, Propagated("InvalidName"), indexVersions)
            /\ rpc' = "idle"
            /\ vi' = 0
       ELSE LET variants == GetNameVariants(c.name)
                hit == FindInCache(variants, disk)
            IN /\ rlog' = CacheLookups(variants, disk)
               /\ IF hit # 0
                  THEN /\ fetched' = FetchOk(variants[hit])
                       /\ out' = Complete(c, FetchOk(variants[hit]), indexVersions)
                       /\ rpc' = "idle"
                       /\ vi' = 0
                  ELSE /\ fetched' = Pending
                       /\ out' = NoOut
                       /\ rpc' = "net"
                       /\ vi' = 1
    /\ req' = c
    /\ disk0' = disk
    /\ ncalls' = ncalls + 1
    /\ UNCHANGED <<indexVersions, disk>>
    /\ UNCHANGED <<cacheVars, searchVars, docsVars, graphVars, routeVars>>

NetEvent(name, outcome) == [src |-> "net", name |-> name, outcome |-> outcome]

\* update_cache returns Ok(Some(krate)): parse_cache_response wrote the entry
\* to the local cache, fetch returns it
NetFound ==
    /\ rpc = "net"
    /\ LET name == GetNameVariants(req.name)[vi]
       IN /\ rlog' = Append(rlog, NetEvent(name, "found"))
          /\ disk' = ParseCacheResponse(disk, name)
          /\ fetched' = FetchOk(name)
          /\ out' = Complete(req, FetchOk(name), indexVersions)
    /\ rpc' = "idle"
    /\ vi' = 0
    /\ UNCHANGED <<indexVersions, disk0, req, ncalls>>
    /\ UNCHANGED <<cacheVars, searchVars, docsVars, graphVars, routeVars>>

\* update_cache returns Ok(None): the next variant is requested, and fetch
\* fails with "Crate {name} not found" after the last
NetAbsent ==
    /\ rpc = "net"
    /\ LET variants == GetNameVariants(req.name)
       IN /\ rlog' = Append(rlog, NetEvent(variants[vi], "absent"))
          /\ IF vi < Len(variants)
             THEN /\ vi' = vi + 1
                  /\ UNCHANGED <<rpc, fetched, out>>
             ELSE /\ vi' = 0
                  /\ rpc' = "idle"
                  /\ fetched' = FetchErr("NotFound")
                  /\ out' = Complete(req, FetchErr("NotFound"), indexVersions)
    /\ UNCHANGED <<indexVersions, disk, disk0, req, ncalls>>
    /\ UNCHANGED <<cacheVars, searchVars, docsVars, graphVars, routeVars>>

\* update_cache returns Err (the request, the transfer or the parse failed):
\* `?` ends fetch_crate and fetch with that error
NetError ==
    /\ rpc = "net"
    /\ rlog' = Append(rlog, NetEvent(GetNameVariants(req.name)[vi], "error"))
    /\ fetched' = Propagated("Transport")
    /\ out' = Complete(req, Propagated("Transport"), indexVersions)
    /\ rpc' = "idle"
    /\ vi' = 0
    /\ UNCHANGED <<indexVersions, disk, disk0, req, ncalls>>
    /\ UNCHANGED <<cacheVars, searchVars, docsVars, graphVars, routeVars>>

RegistryNext ==
    \/ \E c \in Calls : Call(c)
    \/ NetFound
    \/ NetAbsent
    \/ NetError

(***************************************************************************)
(* RustdocProvider: acquiring the documentation of a crate                 *)
(* (cargo-mcp/src/providers/rustdoc.rs), the tools that call the providers *)
(* (cargo-mcp/src/server.rs) and the crate resources of src/src/server.rs. *)
(***************************************************************************)
\* the calls started are numbered 1..MaxDocCalls
MaxDocCalls == 2

\* the tasks that serve requests concurrently
Tasks == {"t1", "t2"}

Free == "free"

\* crate names a caller supplies: the second holds a character that
\* validate_crate_name rejects
DocNames == {<<"s">>, <<"s", ";">>}

Alphanumeric == {"s", "a", "b", "c", "1", "2"}

\* Server::validate_crate_name: only alphanumerics, '-' and '_'
ValidCrateName(name) ==
    \A i \in 1..Len(name) : name[i] \in Alphanumeric \cup {"-", "_"}

NoVersion == [some |-> FALSE, val |-> <<>>]
SomeVersion(v) == [some |-> TRUE, val |-> v]

DocVersions == {NoVersion, SomeVersion(<<"1">>)}

\* the manifest paths of workspaces
WorkspacePaths == {<<"w">>}

\* get_crate_docs built the key without the version
CacheKeyOfName(name, version) == name

\* get_crate_docs: version.unwrap_or("*"), format!("{name}:{version}")
CacheKey(name, version) ==
    name \o <<":">> \o (IF version.some THEN version.val ELSE <<"*">>)

\* an Arc<Crate>: the graph built by call `build` for `key`
Graph(key, build) == [key |-> key, build |-> build]
NoGraph == Graph(<<>>, 0)

NoHeld == [some |-> FALSE, val |-> NoGraph]
Held(g) == [some |-> TRUE, val |-> g]

\* a lookup that never finds the key
CacheGetNothing(cache, key) == NoHeld

\* self.cache.lock().unwrap().get(&cache_key).cloned()
CacheGet(cache, key) ==
    IF key \in DOMAIN cache THEN Held(cache[key]) ELSE NoHeld

\* cache.insert(cache_key.clone(), krate.clone())
CacheInsert(cache, key, g) ==
    [k \in DOMAIN cache \cup {key} |-> IF k = key THEN g ELSE cache[k]]

\* the guard of the lookup kept after the lookup
HeldAfterGet(t) == t

\* the guard of `self.cache.lock()` in the lookup is dropped with the
\* statement: the Mutex is free once the lookup is over
AfterGet(t) == Free

\* Result<Arc<Crate>>
DocOk(g) == [ok |-> TRUE, graph |-> g, err |-> "none"]
DocErr(e) == [ok |-> FALSE, graph |-> NoGraph, err |-> e]
NoRet == [ok |-> FALSE, graph |-> NoGraph, err |-> "pending"]

(***************************************************************************)
(* generate_rustdoc_json.  A document is what rustdoc left behind: whether *)
(* Builder::build succeeded, whether the file could be read, whether it is *)
(* JSON, whether it deserializes as rustdoc_types::Crate, and what its     *)
(* "format_version" member is.  Deserializing as rustdoc_types::Crate      *)
(* needs a numeric format_version but does not look at its value.          *)
(***************************************************************************)
FormatVersions == {"absent", "expected", "other", "not_u64"}

Documents ==
    {d \in [built : BOOLEAN, readable : BOOLEAN, json : BOOLEAN, fits : BOOLEAN,
            format_version : FormatVersions] :
        /\ d.fits => d.json /\ d.format_version \in {"expected", "other"}
        /\ ~d.json => d.format_version = "absent"
        /\ ~d.readable => ~d.json
        /\ ~d.built => ~d.readable}

\* deserialize_str::<rustdoc_types::Crate>
DeserializesAsCrate(d) == d.json /\ d.fits

\* deserialize_str::<serde_json::Value>
DeserializesAsValue(d) == d.json

\* value.get("format_version").and_then(|v| v.as_u64()) is Some and differs
\* from rustdoc_types::FORMAT_VERSION
VersionMismatch(d) == d.format_version = "other"

\* generate_rustdoc_json taking whatever rustdoc left behind
GenerateRustdocJsonLenient(d) == DocOk(NoGraph)

\* generate_rustdoc_json: Ok carries the raw document, here no graph yet
GenerateRustdocJson(d) ==
    IF ~d.built THEN DocErr("Failed to generate rustdoc JSON")
    ELSE IF ~d.readable THEN DocErr("Failed to read JSON file")
    ELSE IF DeserializesAsCrate(d) THEN DocOk(NoGraph)
    ELSE IF ~DeserializesAsValue(d) THEN DocErr("Failed to parse rustdoc JSON")
    ELSE IF VersionMismatch(d) THEN DocErr("rustdoc JSON format version mismatch")
    ELSE DocErr("Failed to parse rustdoc JSON")

NoDocument == [built |-> FALSE, readable |-> FALSE, json |-> FALSE, fits |-> FALSE,
               format_version |-> "absent"]

(***************************************************************************)
(* The tools: a provider's Result becomes a CallToolResult.                *)
(***************************************************************************)
ToolSuccess(g) == [is_error |-> FALSE, text |-> "json", graph |-> g]
ToolError(msg) == [is_error |-> TRUE, text |-> msg, graph |-> NoGraph]
NoToolResult == [is_error |-> FALSE, text |-> "pending", graph |-> NoGraph]

\* search_crate answering an error of get_crate_docs with an empty list
SearchCrateResultEmptyOnError(r) == ToolSuccess(r.graph)

\* search_crate: Err(err) => CallToolResult::error, Ok(krate) => the
\* results of krate.search as CallToolResult::success
SearchCrateResult(r) ==
    IF r.ok THEN ToolSuccess(r.graph) ELSE ToolError("Failed to search for crate")

\* crates_io_latest_version, crates_io_features: Ok => success, Err => error
CratesIoResult(o) ==
    IF o.status = "ok" THEN ToolSuccess(NoGraph) ELSE ToolError(o.status)

\* what fetch_latest_version and fetch_features can return
RegistryOutcomes ==
    {OutOk("1.0.0", {})} \cup
    {OutErr(k) : k \in {"NotFound", "Transport", "NoVersions", "VersionNotFound"}}

(***************************************************************************)
(* The calls.  A task is "idle" between calls and "done" when its call has *)
(* returned to the tool and the result is being sent.                      *)
(***************************************************************************)
Tools == {"search_crate", "workspace_docs", "crates_io_latest_version",
          "crates_io_features", "crate_info", "crate_docs"}

NoReq == [id |-> 0, tool |-> "none", name |-> <<>>, version |-> NoVersion,
          doc |-> NoDocument]

Request(id, tool, name, version) ==
    [id |-> id, tool |-> tool, name |-> name, version |-> version, doc |-> NoDocument]

\* what leaves the process: files written and external processes started
Processes == {"cargo vendor", "rustdoc", "rustup", "cargo info"}

DocsInit ==
    /\ docs_cache = << >>
    /\ lock = Free
    /\ dpc = [t \in Tasks |-> "idle"]
    /\ dreq = [t \in Tasks |-> NoReq]
    /\ dfx = [t \in Tasks |-> {}]
    /\ dret = [t \in Tasks |-> NoRet]
    /\ tret = [t \in Tasks |-> NoToolResult]
    /\ dheld = [t \in Tasks |-> NoHeld]
    /\ inserts = << >>
    /\ res_cache = [docs |-> {}, info |-> {}]
    /\ dcalls = 0

\* the provider state of a specification that does not exercise it
DocsIdle ==
    /\ docs_cache = << >>
    /\ lock = Free
    /\ dpc = << >>
    /\ dreq = << >>
    /\ dfx = << >>
    /\ dret = << >>
    /\ tret = << >>
    /\ dheld = << >>
    /\ inserts = << >>
    /\ res_cache = << >>
    /\ dcalls = 0

\* a call begins at step pc
Begin(t, tool, name, version, pc) ==
    /\ dpc[t] = "idle"
    /\ dcalls < MaxDocCalls
    /\ dcalls' = dcalls + 1
    /\ dreq' = [dreq EXCEPT ![t] = Request(dcalls + 1, tool, name, version)]
    /\ dpc' = [dpc EXCEPT ![t] = pc]
    /\ dfx' = [dfx EXCEPT ![t] = {}]
    /\ dret' = [dret EXCEPT ![t] = NoRet]
    /\ tret' = [tret EXCEPT ![t] = NoToolResult]
    /\ dheld' = [dheld EXCEPT ![t] = NoHeld]
    /\ UNCHANGED <<docs_cache, lock, inserts, res_cache>>
    /\ UNCHANGED <<cacheVars, searchVars, registryVars, graphVars, routeVars>>

\* the provider returns r and the tool turns it into tr
ReturnToTool(t, r, tr) ==
    /\ dret' = [dret EXCEPT ![t] = r]
    /\ tret' = [tret EXCEPT ![t] = tr]
    /\ dpc' = [dpc EXCEPT ![t] = "done"]

\* search_crate calls get_crate_docs(crate_name, version)
StartSearch(t, name, version) == Begin(t, "search_crate", name, version, "lock_get")

\* get_workspace_docs(path)
StartWorkspace(t, path) == Begin(t, "workspace_docs", path, NoVersion, "workspace_docs")

\* get_crate_docs: self.cache.lock()
LockForGet(t) ==
    /\ dpc[t] = "lock_get"
    /\ lock = Free
    /\ lock' = t
    /\ dpc' = [dpc EXCEPT ![t] = "get"]
    /\ UNCHANGED <<docs_cache, dreq, dfx, dret, tret, dheld, inserts, res_cache, dcalls>>
    /\ UNCHANGED <<cacheVars, searchVars, registryVars, graphVars, routeVars>>

\* get_crate_docs: the lookup; a cached graph is returned at once
GetCached(t) ==
    /\ dpc[t] = "get"
    /\ LET key == CacheKey(dreq[t].name, dreq[t].version)
           found == CacheGet(docs_cache, key)
       IN /\ dheld' = [dheld EXCEPT ![t] =
                          IF key \in DOMAIN docs_cache THEN Held(docs_cache[key])
                          ELSE NoHeld]
          /\ IF found.some
             THEN /\ ReturnToTool(t, DocOk(found.val), SearchCrateResult(DocOk(found.val)))
                  /\ lock' = Free
             ELSE /\ dpc' = [dpc EXCEPT ![t] = "workspace"]
                  /\ lock' = AfterGet(t)
                  /\ UNCHANGED <<dret, tret>>
    /\ UNCHANGED <<docs_cache, dreq, dfx, inserts, res_cache, dcalls>>
    /\ UNCHANGED <<cacheVars, searchVars, registryVars, graphVars, routeVars>>

\* what the temporary workspace holds when its creation stops at `failAt`
WorkspaceEffects(failAt) ==
    CASE failAt = "tempdir" -> {}
      [] failAt = "manifest" -> {"tempdir"}
      [] failAt = "srcdir" -> {"tempdir", "manifest"}
      [] failAt = "librs" -> {"tempdir", "manifest", "srcdir"}
      [] OTHER -> {"tempdir", "manifest", "srcdir", "librs"}

WorkspaceError(failAt) ==
    CASE failAt = "tempdir" -> "Failed to create temp dir"
      [] failAt = "manifest" -> "Failed to write Cargo.toml"
      [] failAt = "srcdir" -> "Failed to create src dir"
      [] OTHER -> "Failed to write lib.rs"

\* get_crate_docs: tempdir, Cargo.toml, src, src/lib.rs
CreateWorkspace(t) ==
    /\ dpc[t] = "workspace"
    /\ \E failAt \in {"none", "tempdir", "manifest", "srcdir", "librs"} :
          /\ dfx' = [dfx EXCEPT ![t] = @ \cup WorkspaceEffects(failAt)]
          /\ IF failAt = "none"
             THEN /\ dpc' = [dpc EXCEPT ![t] = "vendor"]
                  /\ UNCHANGED <<dret, tret>>
             ELSE ReturnToTool(t, DocErr(WorkspaceError(failAt)),
                               SearchCrateResult(DocErr(WorkspaceError(failAt))))
    /\ UNCHANGED <<docs_cache, lock, dreq, dheld, inserts, res_cache, dcalls>>
    /\ UNCHANGED <<cacheVars, searchVars, registryVars, graphVars, routeVars>>

\* get_crate_docs: cargo vendor; cargo accepts only a dependency whose name
\* it can parse
CargoVendor(t) ==
    /\ dpc[t] = "vendor"
    /\ \E o \in {"ok", "spawn", "status"} :
          /\ o = "ok" => ValidCrateName(dreq[t].name)
          /\ dfx' = [dfx EXCEPT ![t] = IF o = "spawn" THEN @ ELSE @ \cup {"cargo vendor"}]
          /\ IF o = "ok"
             THEN /\ dpc' = [dpc EXCEPT ![t] = "find"]
                  /\ UNCHANGED <<dret, tret>>
             ELSE LET e == IF o = "spawn" THEN "Failed to run cargo vendor"
                           ELSE "cargo vendor failed"
                  IN ReturnToTool(t, DocErr(e), SearchCrateResult(DocErr(e)))
    /\ UNCHANGED <<docs_cache, lock, dreq, dheld, inserts, res_cache, dcalls>>
    /\ UNCHANGED <<cacheVars, searchVars, registryVars, graphVars, routeVars>>

\* get_crate_docs: read vendor/ and find the directory named after the crate
FindVendored(t) ==
    /\ dpc[t] = "find"
    /\ \E o \in {"ok", "read_dir", "missing"} :
          IF o = "ok"
          THEN /\ dpc' = [dpc EXCEPT ![t] = "generate"]
               /\ UNCHANGED <<dret, tret>>
          ELSE LET e == IF o = "read_dir" THEN "Failed to read vendor dir"
                        ELSE "Could not find vendored crate"
               IN ReturnToTool(t, DocErr(e), SearchCrateResult(DocErr(e)))
    /\ UNCHANGED <<docs_cache, lock, dreq, dfx, dheld, inserts, res_cache, dcalls>>
    /\ UNCHANGED <<cacheVars, searchVars, registryVars, graphVars, routeVars>>

\* get_crate_docs: generate_rustdoc_json(&crate_dir, false), Crate::from_crate
Generate(t) ==
    /\ dpc[t] = "generate"
    /\ \E d \in Documents :
          LET r == GenerateRustdocJson(d)
          IN /\ dreq' = [dreq EXCEPT ![t].doc = d]
             /\ dfx' = [dfx EXCEPT ![t] = @ \cup {"rustdoc"}]
             /\ IF r.ok
                THEN /\ dpc' = [dpc EXCEPT ![t] = "lock_insert"]
                     /\ UNCHANGED <<dret, tret>>
                ELSE ReturnToTool(t, r, SearchCrateResult(r))
    /\ UNCHANGED <<docs_cache, lock, dheld, inserts, res_cache, dcalls>>
    /\ UNCHANGED <<cacheVars, searchVars, registryVars, graphVars, routeVars>>

\* get_crate_docs: self.cache.lock() before the insert
LockForInsert(t) ==
    /\ dpc[t] = "lock_insert"
    /\ lock = Free
    /\ lock' = t
    /\ dpc' = [dpc EXCEPT ![t] = "insert"]
    /\ UNCHANGED <<docs_cache, dreq, dfx, dret, tret, dheld, inserts, res_cache, dcalls>>
    /\ UNCHANGED <<cacheVars, searchVars, registryVars, graphVars, routeVars>>

\* get_crate_docs: cache.insert, the guard is dropped, Ok(krate)
InsertCached(t) ==
    /\ dpc[t] = "insert"
    /\ LET key == CacheKey(dreq[t].name, dreq[t].version)
           g == Graph(key, dreq[t].id)
       IN /\ docs_cache' = CacheInsert(docs_cache, key, g)
          /\ inserts' = Append(inserts, [key |-> key, graph |-> g])
          /\ ReturnToTool(t, DocOk(g), SearchCrateResult(DocOk(g)))
    /\ lock' = Free
    /\ UNCHANGED <<dreq, dfx, dheld, res_cache, dcalls>>
    /\ UNCHANGED <<cacheVars, searchVars, registryVars, graphVars, routeVars>>

\* get_workspace_docs storing what it built
WorkspaceCacheInserting(cache, path, g) == CacheInsert(cache, path, g)

\* get_workspace_docs: the provider's cache is not touched
WorkspaceCache(cache, path, g) == cache

\* get_workspace_docs: generate_rustdoc_json(path, true), Crate::from_crate
WorkspaceDocs(t) ==
    /\ dpc[t] = "workspace_docs"
    /\ \E d \in Documents :
          LET r == GenerateRustdocJson(d)
              g == Graph(dreq[t].name, dreq[t].id)
          IN /\ dreq' = [dreq EXCEPT ![t].doc = d]
             /\ dfx' = [dfx EXCEPT ![t] = @ \cup {"rustdoc", "private items"}]
             /\ docs_cache' = IF r.ok THEN WorkspaceCache(docs_cache, dreq[t].name, g)
                              ELSE docs_cache
             /\ ReturnToTool(t, IF r.ok THEN DocOk(g) ELSE r, NoToolResult)
    /\ UNCHANGED <<lock, dheld, inserts, res_cache, dcalls>>
    /\ UNCHANGED <<cacheVars, searchVars, registryVars, graphVars, routeVars>>

\* a call that begins and returns in one step
Atomic(t, tool, name, version, fx, r, tr) ==
    /\ dpc[t] = "idle"
    /\ dcalls < MaxDocCalls
    /\ dcalls' = dcalls + 1
    /\ dreq' = [dreq EXCEPT ![t] = Request(dcalls + 1, tool, name, version)]
    /\ dfx' = [dfx EXCEPT ![t] = fx]
    /\ dheld' = [dheld EXCEPT ![t] = NoHeld]
    /\ ReturnToTool(t, r, tr)
    /\ UNCHANGED <<docs_cache, lock, inserts>>
    /\ UNCHANGED <<cacheVars, searchVars, registryVars, graphVars, routeVars>>

\* Result of a provider or resource call that carries no graph
Plain(ok, e) == IF ok THEN DocOk(NoGraph) ELSE DocErr(e)

\* crates_io_latest_version, crates_io_features: the provider's result is
\* matched into a CallToolResult
CratesIoTool(t, tool, name) ==
    \E o \in RegistryOutcomes :
        /\ Atomic(t, tool, name, NoVersion, {}, Plain(o.status = "ok", o.status),
                  CratesIoResult(o))
        /\ UNCHANGED res_cache

\* Server::get_info (src/src/server.rs): info_cache, else `cargo info <name>`;
\* an entry of the cache may have expired
ReadCrateInfo(t, name) ==
    \E hit \in (IF name \in res_cache.info THEN BOOLEAN ELSE {FALSE}),
       o \in {"ok", "spawn", "status", "parse"} :
        /\ o = "ok" => ValidCrateName(name)
        /\ hit => o = "ok"
        /\ LET fx == IF hit \/ o = "spawn" THEN {} ELSE {"cargo info"}
               r == Plain(o = "ok", IF o = "status" THEN "CrateNotFound" ELSE o)
           IN Atomic(t, "crate_info", name, NoVersion, fx, r,
                     IF r.ok THEN ToolSuccess(NoGraph) ELSE ToolError(r.err))
        /\ res_cache' = IF ~hit /\ o = "ok"
                        THEN [res_cache EXCEPT !.info = @ \cup {name}]
                        ELSE res_cache

\* Server::get_docs (src/src/server.rs): doc_cache, else generate_rustdoc_json,
\* which validates the name before it installs the toolchain and runs rustdoc
ReadCrateDocs(t, name, version) ==
    \E hit \in (IF <<name, version>> \in res_cache.docs THEN BOOLEAN ELSE {FALSE}),
       o \in {"ok", "rustdoc", "public_api"} :
        /\ hit => o = "ok"
        /\ LET valid == ValidCrateName(name)
               fx == IF hit \/ ~valid THEN {} ELSE {"rustup", "rustdoc"}
               r == IF hit THEN Plain(TRUE, "none")
                    ELSE IF ~valid THEN Plain(FALSE, "Invalid crate name")
                    ELSE Plain(o = "ok", o)
           IN /\ Atomic(t, "crate_docs", name, version, fx, r,
                        IF r.ok THEN ToolSuccess(NoGraph) ELSE ToolError(r.err))
              /\ res_cache' = IF ~hit /\ r.ok
                              THEN [res_cache EXCEPT !.docs = @ \cup {<<name, version>>}]
                              ELSE res_cache

\* the result has been sent: the task is free for the next request
Return(t) ==
    /\ dpc[t] = "done"
    /\ dpc' = [dpc EXCEPT ![t] = "idle"]
    /\ dreq' = [dreq EXCEPT ![t] = NoReq]
    /\ dfx' = [dfx EXCEPT ![t] = {}]
    /\ dret' = [dret EXCEPT ![t] = NoRet]
    /\ tret' = [tret EXCEPT ![t] = NoToolResult]
    /\ dheld' = [dheld EXCEPT ![t] = NoHeld]
    /\ UNCHANGED <<docs_cache, lock, inserts, res_cache, dcalls>>
    /\ UNCHANGED <<cacheVars, searchVars, registryVars, graphVars, routeVars>>

\* the steps of a get_crate_docs call under way
PipelineStep(t) ==
    \/ LockForGet(t)
    \/ GetCached(t)
    \/ CreateWorkspace(t)
    \/ CargoVendor(t)
    \/ FindVendored(t)
    \/ Generate(t)
    \/ LockForInsert(t)
    \/ InsertCached(t)

\* the steps of a call under way
Step(t) == PipelineStep(t) \/ WorkspaceDocs(t)

\* search_crate calls only
PipelineNext ==
    \E t \in Tasks :
        \/ \E n \in DocNames, v \in DocVersions : StartSearch(t, n, v)
        \/ PipelineStep(t)
        \/ Return(t)

DocsNext ==
    \E t \in Tasks :
        \/ \E n \in DocNames, v \in DocVersions : StartSearch(t, n, v)
        \/ \E p \in WorkspacePaths : StartWorkspace(t, p)
        \/ \E n \in DocNames : CratesIoTool(t, "crates_io_latest_version", n)
        \/ \E n \in DocNames : CratesIoTool(t, "crates_io_features", n)
        \/ \E n \in DocNames : ReadCrateInfo(t, n)
        \/ \E n \in DocNames, v \in DocVersions : ReadCrateDocs(t, n, v)
        \/ Step(t)
        \/ Return(t)

(***************************************************************************)
(* Crate::from_crate: building the item graph of a rustdoc document        *)
(* (cargo-mcp/src/providers/rustdoc.rs).                                   *)
(***************************************************************************)
\* the same document is built BuildsCompared times
BuildsCompared == 2

StrE == <<"E">>
StrF == <<"f">>
StrG == <<"g">>
StrK == <<"K">>
StrS == <<"S">>
StrT == <<"T">>
StrV == <<"V">>

\* the characters of the names, in the order of their bytes
CharOrder == <<"E", "K", "S", "T", "V", "a", "b", "f", "g">>

CharRank(c) == CHOOSE i \in 1..Len(CharOrder) : CharOrder[i] = c

\* Ord for str
RECURSIVE StrLess(_, _)
StrLess(x, y) ==
    IF y = <<>> THEN FALSE
    ELSE IF x = <<>> THEN TRUE
    ELSE IF x[1] = y[1] THEN StrLess(Tail(x), Tail(y))
    ELSE CharRank(x[1]) < CharRank(y[1])

RECURSIVE InsertSorted(_, _)
InsertSorted(sorted, x) ==
    IF sorted = <<>> THEN <<x>>
    ELSE IF x = Head(sorted) THEN sorted
    ELSE IF StrLess(x, Head(sorted)) THEN <<x>> \o sorted
    ELSE <<Head(sorted)>> \o InsertSorted(Tail(sorted), x)

\* a list left in the order of its pushes
AsPushed(list) == list

\* Item::sort for one list: list.sort(); list.dedup()
RECURSIVE SortDedup(_)
SortDedup(list) ==
    IF list = <<>> THEN <<>>
    ELSE InsertSorted(SortDedup(Tail(list)), Head(list))

\* Item::new: the child lists start empty
NewItem(id, name, path, search, kind) ==
    [id |-> id, name |-> name, path |-> path, search |-> search, kind |-> kind,
     functions |-> <<>>, variants |-> <<>>, traits |-> <<>>, trait_impls |-> <<>>,
     structs |-> <<>>, enums |-> <<>>]

\* Item::from_summary with the summary's kind
SummaryItem(id, summary, crateName) ==
    LET f == FromSummary(id, summary.path, crateName)
    IN NewItem(id, f.name, f.path, f.search, summary.kind)

\* Item::sort
SortItem(item) ==
    [item EXCEPT !.functions = SortDedup(@),
                 !.variants = SortDedup(@),
                 !.traits = SortDedup(@),
                 !.trait_impls = SortDedup(@),
                 !.structs = SortDedup(@),
                 !.enums = SortDedup(@)]

\* a child filed under its bare name
ChildPathFlat(item, name) == [path |-> name, search |-> name]

\* Item::child_path
ChildPath(item, name) ==
    [path |-> item.path \o Sep \o name,
     search |-> IF item.search = <<>> THEN name ELSE item.search \o Sep \o name]

\* ids handed out in the order the children are met
ArrivalIds == <<"n1", "n2", "n3", "n4", "n5">>

\* a child keyed by the number of children met before it
ChildIdByArrival(item_id, additional) ==
    ArrivalIds[Cardinality(DOMAIN additional) + 1]

\* additional_items.insert(item_id, ..): a child is keyed by its own id
ChildId(item_id, additional) == item_id

\* the impl blocks among `impls`: ids the index lacks are passed over, and
\* so are items that are no impl
ImplsOf(impls, index) ==
    SelectSeq(impls, LAMBDA i : i \in DOMAIN index /\ index[i].inner.kind = "impl")

\* the impl blocks with a trait target
TraitImpls(impls, index) ==
    SelectSeq(ImplsOf(impls, index), LAMBDA i : index[i].inner.trait.some)

\* every impl block taken for one without a trait target
EveryImpl(impls, index) ==
    SelectSeq(impls, LAMBDA i : i \in DOMAIN index /\ index[i].inner.kind = "impl")

\* the impl blocks without one
InherentImpls(impls, index) ==
    SelectSeq(ImplsOf(impls, index), LAMBDA i : ~index[i].inner.trait.some)

\* the ids among `ids` that the index holds with a name
NamedIn(ids, index) ==
    SelectSeq(ids, LAMBDA m : m \in DOMAIN index /\ index[m].name.some)

\* the named members of the impl blocks, in order
RECURSIVE Members(_, _)
Members(impls, index) ==
    IF impls = <<>> THEN <<>>
    ELSE NamedIn(index[Head(impls)].inner.items, index) \o Members(Tail(impls), index)

NamesOf(ids, index) == [i \in 1..Len(ids) |-> index[ids[i]].name.val]

\* push_trait_impl for each impl block with a trait target
TraitNames(impls, index) ==
    [i \in 1..Len(impls) |-> index[impls[i]].inner.trait.val]

\* the child items of `item` for the ids, in order: a variant always, an
\* impl member only when it is a function
RECURSIVE InsertChildren(_, _, _, _, _)
InsertChildren(item, ids, index, additional, asVariant) ==
    IF ids = <<>> THEN additional
    ELSE LET m == Head(ids)
             name == index[m].name.val
             cp == ChildPath(item, name)
             child == NewItem(m, name, cp.path, cp.search,
                              IF asVariant THEN "variant" ELSE "function")
             next == IF asVariant \/ index[m].inner.kind = "function"
                     THEN MapInsert(additional, ChildId(m, additional), child)
                     ELSE additional
         IN InsertChildren(item, Tail(ids), index, next, asVariant)

\* resolve_children, the impl blocks of a struct or an enum
ResolveImpls(item, info, index, additional) ==
    LET members == Members(InherentImpls(info.inner.impls, index), index)
    IN [item |-> [item EXCEPT
                    !.functions = @ \o NamesOf(members, index),
                    !.trait_impls = @ \o TraitNames(TraitImpls(info.inner.impls, index), index)],
        additional |-> InsertChildren(item, members, index, additional, FALSE)]

\* Item::resolve_children
ResolveChildren(item, info, index, additional) ==
    IF info.inner.kind = "struct" THEN ResolveImpls(item, info, index, additional)
    ELSE IF info.inner.kind = "enum"
    THEN LET variants == NamedIn(info.inner.variants, index)
         IN ResolveImpls([item EXCEPT !.variants = @ \o NamesOf(variants, index)],
                         info, index,
                         InsertChildren(item, variants, index, additional, TRUE))
    ELSE [item |-> item, additional |-> additional]

\* HashMap::extend
MapExtend(items, additional) ==
    [k \in DOMAIN items \cup DOMAIN additional |->
        IF k \in DOMAIN additional THEN additional[k] ELSE items[k]]

(***************************************************************************)
(* The documents: rustdoc_types::Crate with its root, index and paths.     *)
(* The crate "a" holds a struct S with the impl block i1 (members m1, m2), *)
(* an impl id the index lacks and the impl block i3 (member m4), and an    *)
(* enum E with the variant v1 and the impl block i2 (member m3); X belongs *)
(* to another crate and P is a path without an index entry.                *)
(***************************************************************************)
Local == "local"
External == "ext"

Unnamed == [some |-> FALSE, val |-> <<>>]
Named(n) == [some |-> TRUE, val |-> n]

NoTrait == [some |-> FALSE, val |-> <<>>]
OfTrait(n) == [some |-> TRUE, val |-> n]

\* rustdoc_types::ItemEnum, as far as from_crate reads it
Inner(kind, impls, variants, trait, items) ==
    [kind |-> kind, impls |-> impls, variants |-> variants, trait |-> trait,
     items |-> items]

Leaf(kind) == Inner(kind, <<>>, <<>>, NoTrait, <<>>)

\* rustdoc_types::Item
Info(crate_id, name, inner) == [crate_id |-> crate_id, name |-> name, inner |-> inner]

\* rustdoc_types::ItemSummary
Summary(crate_id, path, kind) == [crate_id |-> crate_id, path |-> path, kind |-> kind]

Absent == [present |-> FALSE, info |-> Info(Local, Unnamed, Leaf("none"))]
Present(info) == [present |-> TRUE, info |-> info]

Member1Choices ==
    {Absent,
     Present(Info(Local, Unnamed, Leaf("function"))),
     Present(Info(Local, Named(StrF), Leaf("function"))),
     Present(Info(Local, Named(StrF), Leaf("assoc_const")))}

Member2Choices ==
    {Present(Info(Local, Named(StrF), Leaf("function"))),
     Present(Info(Local, Named(StrG), Leaf("function"))),
     Present(Info(Local, Named(StrK), Leaf("assoc_const")))}

Member3Choices ==
    {Present(Info(Local, Named(StrF), Leaf("function"))),
     Present(Info(Local, Named(StrK), Leaf("assoc_const")))}

Member4Choices ==
    {Absent,
     Present(Info(Local, Named(StrF), Leaf("function")))}

VariantChoices ==
    {Absent,
     Present(Info(Local, Unnamed, Leaf("variant"))),
     Present(Info(Local, Named(StrV), Leaf("variant")))}

TraitChoices == {NoTrait, OfTrait(StrT)}

\* krate.index: the entries that are present
IndexOf(listed) ==
    [id \in {i \in DOMAIN listed : listed[i].present} |-> listed[id].info]

\* krate.paths; the variant has a path of its own or not
PathsOf(variantListed) ==
    LET listed == [r |-> Summary(Local, <<A>>, "module"),
                   S |-> Summary(Local, <<A, StrS>>, "struct"),
                   E |-> Summary(Local, <<A, StrE>>, "enum"),
                   X |-> Summary(External, <<B, StrS>>, "struct"),
                   P |-> Summary(Local, <<A, StrF>>, "function"),
                   v1 |-> Summary(Local, <<A, StrE, StrV>>, "variant")]
    IN [id \in DOMAIN listed \ (IF variantListed THEN {} ELSE {"v1"}) |-> listed[id]]

Document(m1, m2, m3, m4, t1, t2, v, variantListed) ==
    [root |-> "r",
     index |-> IndexOf(
        [r |-> Present(Info(Local, Named(A), Leaf("module"))),
         S |-> Present(Info(Local, Named(StrS),
                            Inner("struct", <<"i1", "i0", "i3">>, <<>>, NoTrait, <<>>))),
         E |-> Present(Info(Local, Named(StrE),
                            Inner("enum", <<"i2">>, <<"v1">>, NoTrait, <<>>))),
         X |-> Present(Info(External, Named(StrS),
                            Inner("struct", <<>>, <<>>, NoTrait, <<>>))),
         i1 |-> Present(Info(Local, Unnamed,
                             Inner("impl", <<>>, <<>>, t1, <<"m1", "m2">>))),
         i2 |-> Present(Info(Local, Unnamed,
                             Inner("impl", <<>>, <<>>, t2, <<"m3">>))),
         i3 |-> Present(Info(Local, Unnamed,
                             Inner("impl", <<>>, <<>>, NoTrait, <<"m4">>))),
         m1 |-> m1,
         m2 |-> m2,
         m3 |-> m3,
         m4 |-> m4,
         v1 |-> v]),
     paths |-> PathsOf(variantListed)]

GraphDocuments ==
    {Document(m1, m2, m3, m4, t1, t2, v, listed) :
        m1 \in Member1Choices, m2 \in Member2Choices, m3 \in Member3Choices,
        m4 \in Member4Choices,
        t1 \in TraitChoices, t2 \in TraitChoices,
        v \in VariantChoices,
        listed \in BOOLEAN}
    \ {Document(m1, m2, m3, m4, t1, t2, v, TRUE) :
        m1 \in Member1Choices, m2 \in Member2Choices, m3 \in Member3Choices,
        m4 \in Member4Choices,
        t1 \in TraitChoices, t2 \in TraitChoices,
        v \in {c \in VariantChoices : ~c.present \/ ~c.info.name.some}}

\* from_crate(krate, None): the crate id and name are the root item's
CrateId(doc) == doc.index[doc.root].crate_id
CrateName(doc) == doc.index[doc.root].name.val

GraphInit ==
    /\ rdoc \in GraphDocuments
    /\ phase = "first"
    /\ pending = DOMAIN rdoc.paths
    /\ processed_items = << >>
    /\ processed_paths = << >>
    /\ additional_items = << >>
    /\ built = << >>

\* the builder state of a specification that does not exercise it
GraphIdle ==
    /\ rdoc = << >>
    /\ phase = "idle"
    /\ pending = {}
    /\ processed_items = << >>
    /\ processed_paths = << >>
    /\ additional_items = << >>
    /\ built = << >>

\* from_crate, first pass: one turn of `for (&id, item) in &krate.paths`
FirstPass(id) ==
    /\ phase = "first"
    /\ id \in pending
    /\ LET items == IF id \in DOMAIN rdoc.index /\ rdoc.index[id].crate_id = CrateId(rdoc)
                    THEN MapInsert(processed_items, id,
                                   SummaryItem(id, rdoc.paths[id], CrateName(rdoc)))
                    ELSE processed_items
       IN /\ processed_items' = items
          /\ IF pending = {id}
             THEN phase' = "second" /\ pending' = DOMAIN items
             ELSE phase' = phase /\ pending' = pending \ {id}
    /\ UNCHANGED <<rdoc, processed_paths, additional_items, built>>
    /\ UNCHANGED <<cacheVars, searchVars, registryVars, docsVars, routeVars>>

\* from_crate, second pass: one turn of `for (&id, item) in &mut processed.items`
SecondPass(id) ==
    /\ phase = "second"
    /\ id \in pending
    /\ LET r == ResolveChildren(processed_items[id], rdoc.index[id], rdoc.index,
                                additional_items)
       IN /\ processed_items' = [processed_items EXCEPT ![id] = SortItem(r.item)]
          /\ additional_items' = r.additional
    /\ pending' = pending \ {id}
    /\ phase' = IF pending = {id} THEN "extend" ELSE phase
    /\ UNCHANGED <<rdoc, processed_paths, built>>
    /\ UNCHANGED <<cacheVars, searchVars, registryVars, docsVars, routeVars>>

\* from_crate: processed.items.extend(additional_items); the graph is built
Extend ==
    /\ phase = "extend"
    /\ processed_items' = MapExtend(processed_items, additional_items)
    /\ built' = Append(built, MapExtend(processed_items, additional_items))
    /\ phase' = "built"
    /\ UNCHANGED <<rdoc, pending, processed_paths, additional_items>>
    /\ UNCHANGED <<cacheVars, searchVars, registryVars, docsVars, routeVars>>

\* the same document is built again
Rebuild ==
    /\ phase = "built"
    /\ Len(built) < BuildsCompared
    /\ phase' = "first"
    /\ pending' = DOMAIN rdoc.paths
    /\ processed_items' = << >>
    /\ processed_paths' = << >>
    /\ additional_items' = << >>
    /\ UNCHANGED <<rdoc, built>>
    /\ UNCHANGED <<cacheVars, searchVars, registryVars, docsVars, routeVars>>

GraphNext ==
    \/ \E id \in pending : FirstPass(id)
    \/ \E id \in pending : SecondPass(id)
    \/ Extend
    \/ Rebuild

(***************************************************************************)
(* Server::read_resource (src/src/server.rs): from the URI to the handler. *)
(* A URI is a sequence of delimiters ("/", "?", "&", "=") and of words     *)
(* that hold no delimiter; "cargo:" is the scheme with its colon.          *)
(***************************************************************************)
\* a path of the URIs read has at most MaxSegments segments
MaxSegments == 3

Scheme == <<"cargo:", "/", "/">>

\* str::split(c): the pieces between the occurrences of c
RECURSIVE Split(_, _)
Split(s, c) ==
    IF \A i \in 1..Len(s) : s[i] # c THEN <<s>>
    ELSE LET i == CHOOSE j \in 1..Len(s) : s[j] = c /\ \A k \in 1..(j - 1) : s[k] # c
         IN <<SubSeq(s, 1, i - 1)>> \o Split(SubSeq(s, i + 1, Len(s)), c)

\* request.uri.split('?').nth(1).unwrap_or("")
QueryStr(u) ==
    LET parts == Split(u, "?")
    IN IF Len(parts) >= 2 THEN parts[2] ELSE <<>>

\* one pair of form_urlencoded::parse: key and value part at the first '='
Pair(piece) ==
    IF \A i \in 1..Len(piece) : piece[i] # "="
    THEN [k |-> piece, v |-> <<>>]
    ELSE LET i == CHOOSE j \in 1..Len(piece) :
                      piece[j] = "=" /\ \A k \in 1..(j - 1) : piece[k] # "="
         IN [k |-> SubSeq(piece, 1, i - 1), v |-> SubSeq(piece, i + 1, Len(piece))]

\* url::form_urlencoded::parse: the non-empty pieces between '&'
Pairs(q) ==
    LET pieces == SelectSeq(Split(q, "&"), LAMBDA x : x # <<>>)
    IN [i \in 1..Len(pieces) |-> Pair(pieces[i])]

\* pairs.iter().find(|(k, _)| k == "version").map(|(_, v)| v)
VersionOf(pairs) ==
    IF \E i \in 1..Len(pairs) : pairs[i].k = <<"version">>
    THEN SomeVersion(pairs[CHOOSE i \in 1..Len(pairs) :
                              /\ pairs[i].k = <<"version">>
                              /\ \A j \in 1..(i - 1) : pairs[j].k # <<"version">>].v)
    ELSE NoVersion

NoRoute == [handler |-> "none", name |-> <<>>, version |-> NoVersion]
ToDocs(name, version) == [handler |-> "get_docs", name |-> name, version |-> version]
ToInfo(name) == [handler |-> "get_info", name |-> name, version |-> NoVersion]
ToMetadata == [handler |-> "get_metadata", name |-> <<>>, version |-> NoVersion]
InvalidResourcePath ==
    [handler |-> "Invalid resource path", name |-> <<>>, version |-> NoVersion]

\* read_resource: the components of the URI and the match on them
Route(u) ==
    LET components == Split(TrimStartMatches(u, Scheme), "/")
    IN IF Len(components) = 3 /\ components[1] = <<"crate">> /\ components[3] = <<"docs">>
       THEN ToDocs(components[2], VersionOf(Pairs(QueryStr(u))))
       ELSE IF Len(components) = 3 /\ components[1] = <<"crate">>
                                    /\ components[3] = <<"info">>
       THEN ToInfo(components[2])
       ELSE IF components = << <<"project">>, <<"metadata">> >>
       THEN ToMetadata
       ELSE InvalidResourcePath

\* the segments the URIs read are made of
Segments ==
    {<<"crate">>, <<"project">>, <<"metadata">>, <<"docs">>, <<"info">>, <<"s">>, <<>>}

\* the segments joined by '/'
RECURSIVE JoinSlash(_)
JoinSlash(segs) ==
    IF Len(segs) = 1 THEN segs[1]
    ELSE segs[1] \o <<"/">> \o JoinSlash(Tail(segs))

UriPaths == {JoinSlash(segs) : segs \in UNION {[1..n -> Segments] : n \in 1..MaxSegments}}

UriQueries ==
    {<<>>,
     <<"?", "version", "=", "1">>,
     <<"?", "x", "=", "1", "&", "version", "=", "1">>}

\* the last URI has its query before the last segment
Uris ==
    {prefix \o path \o q : prefix \in {<<>>, Scheme}, path \in UriPaths, q \in UriQueries}
    \cup {Scheme \o <<"crate", "/", "s", "?", "version", "=", "1", "/", "docs">>}

RouteInit ==
    /\ uri \in Uris
    /\ routed = NoRoute

\* the router of a specification that does not exercise it
RouteIdle ==
    /\ uri = <<>>
    /\ routed = NoRoute

\* read_resource(request)
ReadResource ==
    /\ routed = NoRoute
    /\ routed' = Route(uri)
    /\ UNCHANGED uri
    /\ UNCHANGED <<cacheVars, searchVars, registryVars, docsVars, graphVars>>

RouteNext == ReadResource

(***************************************************************************)
(* The specifications.                                                     *)
(***************************************************************************)
CacheSpecInit == CacheInit /\ SearchIdle /\ RegistryIdle /\ DocsIdle /\ GraphIdle /\ RouteIdle

CacheSpec == CacheSpecInit /\ [][CacheNext]_vars

SearchSpecInit == SearchInit /\ CacheIdle /\ RegistryIdle /\ DocsIdle /\ GraphIdle /\ RouteIdle

SearchSpec == SearchSpecInit /\ [][SearchNext]_vars

RegistrySpecInit == RegistryInit /\ CacheIdle /\ SearchIdle /\ DocsIdle /\ GraphIdle /\ RouteIdle

RegistrySpec == RegistrySpecInit /\ [][RegistryNext]_vars

DocsSpecInit == DocsInit /\ CacheIdle /\ SearchIdle /\ RegistryIdle /\ GraphIdle /\ RouteIdle

DocsSpec == DocsSpecInit /\ [][DocsNext]_vars

GraphSpecInit == GraphInit /\ CacheIdle /\ SearchIdle /\ RegistryIdle /\ DocsIdle /\ RouteIdle

GraphSpec == GraphSpecInit /\ [][GraphNext]_vars

\* every task that is in a get_crate_docs call is scheduled again
RouteSpecInit ==
    RouteInit /\ CacheIdle /\ SearchIdle /\ RegistryIdle /\ DocsIdle /\ GraphIdle

RouteSpec == RouteSpecInit /\ [][RouteNext]_vars

DocsFairness == \A t \in Tasks : WF_vars(PipelineStep(t))

\* concurrent search_crate calls under fair scheduling
DocsLiveSpec == DocsSpecInit /\ [][PipelineNext]_vars /\ DocsFairness

(***************************************************************************)
(* Claims about the cache, checked under CacheSpec.                        *)
(***************************************************************************)
\* the age, at the time of the last call, of the entry that call found under k
AgeAtOp(k) == op.at - pre[k].timestamp

\* C1: get(k) returns a value if and only if an entry for k is stored and its
\* age is below ttl; the value is that of the most recent insert(k, v); a get
\* right after insert(k, v) returns v when ttl > 0; a get of an entry whose
\* age has reached ttl returns nothing.
C1_GetReturnsFreshValue ==
    op.name = "get" =>
        LET k == op.key IN
        /\ op.ret.some <=> (k \in DOMAIN pre /\ AgeAtOp(k) < ttl)
        /\ op.ret.some => op.ret.val = lastIns[k]
        /\ (op.follows.some /\ ttl > 0) => op.ret = op.follows
        /\ (k \in DOMAIN pre /\ AgeAtOp(k) >= ttl) => op.ret = None

\* a get found an entry of a cache with ttl > 0 whose age had reached ttl
C1_Witness ==
    /\ op.name = "get"
    /\ ttl > 0
    /\ op.key \in DOMAIN pre
    /\ AgeAtOp(op.key) >= ttl
    /\ op.ret = None

\* the last call is an insert of a key that was not stored, into a map that
\* held exactly max_size entries
InsertAtCapacity ==
    /\ op.name = "insert"
    /\ op.key \notin DOMAIN pre
    /\ Cardinality(DOMAIN pre) = max_size

\* exactly one entry, one of least timestamp, is gone and the new key is stored
OneOldestEvicted ==
    \E victim \in DOMAIN pre :
        /\ \A j \in DOMAIN pre : pre[victim].timestamp <= pre[j].timestamp
        /\ DOMAIN entries = (DOMAIN pre \ {victim}) \cup {op.key}
        /\ \A j \in DOMAIN pre \ {victim} : entries[j] = pre[j]
        /\ entries[op.key] = CacheEntry(op.value, op.at)

\* max_size + 1 distinct keys went in at strictly increasing times, and the
\* entries that should remain are still within ttl
FilledPastCapacity ==
    /\ run # Broken
    /\ Len(run) = max_size + 1
    /\ \A i \in 2..Len(run) : run[i] \in DOMAIN entries => IsValid(entries[run[i]], now)

EarliestGoneLaterKept ==
    /\ GetResult(entries, run[1], now) = None
    /\ run[1] \notin DOMAIN entries
    /\ \A i \in 2..Len(run) : GetResult(entries, run[i], now) = Some(lastIns[run[i]])

\* C2 as stated: an insert of a new key into a map of max_size entries removes
\* exactly one entry, of least timestamp, and stores the new key; after
\* max_size + 1 distinct keys at increasing times the earliest is absent and
\* every later one is retrievable.
C2_EvictsOneOldest_AsStated ==
    /\ InsertAtCapacity => OneOldestEvicted
    /\ FilledPastCapacity => EarliestGoneLaterKept

\* C2, amended: the same for a cache created with max_size >= 1.
C2_EvictsOneOldest ==
    max_size >= 1 =>
        /\ InsertAtCapacity => OneOldestEvicted
        /\ FilledPastCapacity => EarliestGoneLaterKept

\* max_size + 1 keys filled a cache of max_size >= 1, the last one evicting
C2_Witness ==
    /\ max_size >= 1
    /\ InsertAtCapacity
    /\ FilledPastCapacity
    /\ run[Len(run)] = op.key

C4_CleanupRemovesExpired ==
    op.name = "cleanup" =>
        /\ DOMAIN entries \subseteq DOMAIN pre
        /\ \A k \in DOMAIN pre :
              /\ AgeAtOp(k) > ttl =>
                    /\ k \notin DOMAIN entries
                    /\ GetResult(entries, k, op.at) = None
              /\ AgeAtOp(k) < ttl =>
                    /\ k \in DOMAIN entries
                    /\ entries[k] = pre[k]
                    /\ GetResult(entries, k, op.at) = Some(pre[k].data)

\* a cleanup removed an expired entry and kept a fresh one
C4_Witness ==
    /\ op.name = "cleanup"
    /\ \E k \in DOMAIN pre : AgeAtOp(k) > ttl /\ k \notin DOMAIN entries
    /\ \E k \in DOMAIN pre : AgeAtOp(k) < ttl /\ k \in DOMAIN entries

\* C28: a cache created with max_size >= 1 never stores more than max_size
\* entries, fresh or stale, whatever calls of insert, get and cleanup were
\* made.
C28_SizeBound ==
    max_size >= 1 => Cardinality(DOMAIN entries) <= max_size

\* an insert of a new key into a cache that held max_size entries, one of
\* them stale
C28_Witness ==
    /\ max_size >= 2
    /\ op.name = "insert"
    /\ op.key \notin DOMAIN pre
    /\ Cardinality(DOMAIN pre) = max_size
    /\ Cardinality(DOMAIN entries) = max_size
    /\ \E k \in DOMAIN entries : ~IsValid(entries[k], now)

\* C29: insert(k, v) for a key k that is stored replaces k's value and
\* timestamp and removes no other key, also when the cache holds max_size
\* entries.
C29_OverwriteKeepsOthers ==
    (op.name = "insert" /\ op.key \in DOMAIN pre) =>
        /\ DOMAIN entries = DOMAIN pre
        /\ entries[op.key] = CacheEntry(op.value, op.at)
        /\ \A k \in DOMAIN pre \ {op.key} : entries[k] = pre[k]

(***************************************************************************)
(* Claims about Crate::search, checked under SearchSpec.                   *)
(***************************************************************************)
ItemIds(k) == {k.items[i].id : i \in 1..Len(k.items)}
ItemOf(k, id) == k.items[CHOOSE i \in 1..Len(k.items) : k.items[i].id = id]
ResultIds(r) == {r[i].id : i \in 1..Len(r)}

\* the query as search compares it: without the package's name and separator
Stripped(q) == TrimStartMatches(TrimStartMatches(q, krate.name), Sep)

\* the items whose search key or name is the string q
EqualItems(q) ==
    {id \in ItemIds(krate) : ItemOf(krate, id).search = q \/ ItemOf(krate, id).name = q}

\* the items whose score against q is above 0.2
ClearingItems(q) ==
    {id \in ItemIds(krate) :
        LET sc == Score(ItemOf(krate, id), q) IN 5 * sc[1] > sc[2]}

\* r lists exactly the items equal to q, once each, with score 1.0, in the
\* order in which the crate iterates them
ExactlyTheEqualItems(r, q) ==
    /\ ResultIds(r) = EqualItems(q)
    /\ Len(r) = Cardinality(EqualItems(q))
    /\ \A i \in 1..Len(r) : r[i].score[1] = r[i].score[2]
    /\ \A i, j \in 1..Len(r) :
          i < j => \E x, y \in 1..Len(krate.items) :
                      x < y /\ krate.items[x].id = r[i].id /\ krate.items[y].id = r[j].id

\* C5: when some item's search key or name equals the stripped query, that
\* is exactly when an item scores 1.0, and the result is exactly the items
\* that do: none dropped, whatever max_results, no fuzzy item added,
\* whatever the iteration order.
C5_ExactMatchPrecedence ==
    /\ \A id \in ItemIds(krate), q \in {Stripped(query), Stripped(Qualified(krate, query))} :
          IsExact(Score(ItemOf(krate, id), q)) <=> id \in EqualItems(q)
    /\ (spc # "start" /\ EqualItems(Stripped(query)) # {}) =>
          ExactlyTheEqualItems(res, Stripped(query))
    /\ (spc = "done" /\ EqualItems(Stripped(Qualified(krate, query))) # {}) =>
          ExactlyTheEqualItems(resQ, Stripped(Qualified(krate, query)))

\* more items equal the query than max_results allows, and an item that only
\* clears the floor is iterated before one of them
C5_Witness ==
    /\ spc # "start"
    /\ max_results.some
    /\ Cardinality(EqualItems(Stripped(query))) > max_results.val
    /\ Len(res) > max_results.val
    /\ \E x, y \in 1..Len(krate.items) :
          /\ x < y
          /\ krate.items[x].id \in ClearingItems(Stripped(query)) \ EqualItems(Stripped(query))
          /\ krate.items[y].id \in EqualItems(Stripped(query))

\* r is a fuzzy result for q: every listed item scores what it is listed
\* with, above 0.2; the scores do not increase; at most max_results items (5
\* when absent) are listed; none when no item clears 0.2
FuzzyBounded(r, q) ==
    /\ \A i \in 1..Len(r) :
          /\ r[i].id \in ItemIds(krate)
          /\ r[i].score = Score(ItemOf(krate, r[i].id), q)
          /\ 5 * r[i].score[1] > r[i].score[2]
    /\ \A i \in 1..Len(r) - 1 : r[i + 1].score[1] * r[i].score[2] <= r[i].score[1] * r[i + 1].score[2]
    /\ Len(r) <= (IF max_results.some THEN max_results.val ELSE 5)
    /\ ClearingItems(q) = {} => r = <<>>

NoExact(q) == \A id \in ItemIds(krate) : ~IsExact(Score(ItemOf(krate, id), q))

\* C6: when no item scores 1.0, every returned item scores above 0.2, the
\* scores are in non-increasing order, there are at most max_results results
\* (5 when max_results is absent), and none when no item clears 0.2.
C6_FuzzyBound ==
    /\ (spc # "start" /\ NoExact(Stripped(query))) => FuzzyBounded(res, Stripped(query))
    /\ (spc = "done" /\ NoExact(Stripped(Qualified(krate, query)))) =>
          FuzzyBounded(resQ, Stripped(Qualified(krate, query)))

\* without max_results, more than 5 items clear the floor with no exact
\* match, and 5 of unequal scores are returned
C6_Witness ==
    /\ spc # "start"
    /\ ~max_results.some
    /\ NoExact(Stripped(query))
    /\ Cardinality(ClearingItems(Stripped(query))) > 5
    /\ Len(res) = 5
    /\ res[1].score[1] * res[5].score[2] > res[5].score[1] * res[1].score[2]

\* the two results list the same items with the same scores in the same order
SameResults(r1, r2) ==
    /\ Len(r1) = Len(r2)
    /\ \A i \in 1..Len(r1) :
          /\ r1[i].id = r2[i].id
          /\ r1[i].score[1] * r2[i].score[2] = r2[i].score[1] * r1[i].score[2]

\* C7: search(name + "::" + q) returns what search(q) returns.
C7_QualifiedQueryInterchangeable ==
    spc = "done" => SameResults(res, resQ)

(***************************************************************************)
(* Claims about the registry client, checked under RegistrySpec.           *)
(***************************************************************************)
Returned == rpc = "idle" /\ ncalls > 0

CacheEvents == SelectSeq(rlog, LAMBDA e : e.src = "cache")
NetEvents == SelectSeq(rlog, LAMBDA e : e.src = "net")

\* the names differ at most in hyphens and underscores
SameUpToSeparators(n1, n2) ==
    /\ Len(n1) = Len(n2)
    /\ \A i \in 1..Len(n1) : n1[i] = n2[i] \/ {n1[i], n2[i]} \subseteq {"-", "_"}

\* the events of one sweep name distinct variants of the name asked for, at
\* most 3, the name as given first
IsVariantSweep(events) ==
    /\ Len(events) <= 3
    /\ \A i \in 1..Len(events) : SameUpToSeparators(events[i].name, req.name)
    /\ \A i, j \in 1..Len(events) : events[i].name = events[j].name => i = j
    /\ events # <<>> => events[1].name = req.name

\* C8: fetch looks up at most 3 variants of the name in the local cache
\* first; it makes network requests only when none of the variants is cached,
\* for the same variants in the same order; it returns the first variant
\* that resolves, and fails with NotFound only when every variant missed in
\* the cache and was absent on the network.
C8_CacheFirstThenNetwork ==
    (ncalls > 0 /\ Formable(req.name)) =>
        /\ rlog = CacheEvents \o NetEvents
        /\ IsVariantSweep(CacheEvents)
        /\ IsVariantSweep(NetEvents)
        /\ \A i \in 1..Len(CacheEvents) :
              (CacheEvents[i].outcome = "hit") <=> (CacheEvents[i].name \in disk0)
        /\ NetEvents # <<>> =>
              /\ \A i \in 1..Len(CacheEvents) : CacheEvents[i].name \notin disk0
              /\ \A i \in 1..Len(NetEvents) : NetEvents[i].name = CacheEvents[i].name
              /\ Len(CacheEvents) = Len(GetNameVariants(req.name))
        /\ \A i \in 1..(Len(rlog) - 1) : rlog[i].outcome \in {"miss", "absent"}
        /\ (Returned /\ fetched.status = "ok") =>
              /\ rlog[Len(rlog)].outcome \in {"hit", "found"}
              /\ rlog[Len(rlog)].name = fetched.name
        /\ (Returned /\ fetched.status = "NotFound") =>
              /\ Len(NetEvents) = Len(CacheEvents)
              /\ \A i \in 1..Len(rlog) : rlog[i].outcome \in {"miss", "absent"}
        /\ (Returned /\ \A i \in 1..Len(rlog) : rlog[i].outcome \in {"miss", "absent"}) =>
              fetched.status = "NotFound"

\* a fetch missed the cache for every variant and resolved the second
\* variant on the network
C8_Witness ==
    /\ Returned
    /\ fetched.status = "ok"
    /\ fetched.name # req.name
    /\ Len(CacheEvents) >= 2
    /\ Len(NetEvents) = 2

\* C23: a variant that update_cache found on the network is in the local
\* cache from then on; and a fetch that begins while the local cache holds a
\* variant of the name makes no network request and returns the first
\* cached variant.
C23_NetworkResultsPersisted ==
    /\ \A i \in 1..Len(NetEvents) :
          NetEvents[i].outcome = "found" => NetEvents[i].name \in disk
    /\ (ncalls > 0 /\ Formable(req.name)) =>
          LET variants == GetNameVariants(req.name)
          IN (\E i \in 1..Len(variants) : variants[i] \in disk0) =>
                /\ NetEvents = <<>>
                /\ Returned
                /\ fetched.status = "ok"
                /\ fetched.name \in disk0
                /\ \E i \in 1..Len(variants) :
                      /\ variants[i] = fetched.name
                      /\ \A j \in 1..(i - 1) : variants[j] \notin disk0

\* the second fetch of a name that the first fetch resolved on the network
C23_Witness ==
    /\ ncalls = 2
    /\ Returned
    /\ req.name \in disk0
    /\ NetEvents = <<>>
    /\ fetched = FetchOk(req.name)

\* C30: fetch requests the variants of the name in order, each at most once
\* and at most 3; every request but the last found the variant absent; a
\* request that found the variant ends fetch with that entry, and a request
\* that failed ends fetch with the error, not with NotFound; and for a name
\* that forms no variants fetch fails with nothing looked up or requested.
C30_NetworkErrorsEndFetch ==
    ncalls > 0 =>
        IF ~Formable(req.name)
        THEN /\ rlog = <<>>
             /\ disk = disk0
             /\ Returned
             /\ fetched.status = "InvalidName"
             /\ out.status = "InvalidName"
        ELSE LET variants == GetNameVariants(req.name)
                 n == Len(NetEvents)
             IN /\ Len(variants) <= 3
                /\ n <= Len(variants)
                /\ \A i \in 1..n : NetEvents[i].name = variants[i]
                /\ \A i \in 1..(n - 1) : NetEvents[i].outcome = "absent"
                /\ (n > 0 /\ NetEvents[n].outcome = "found") =>
                      Returned /\ fetched = FetchOk(variants[n])
                /\ (n > 0 /\ NetEvents[n].outcome = "error") =>
                      /\ Returned
                      /\ fetched.status \notin {"ok", "NotFound", "pending"}
                      /\ out.status = fetched.status
                /\ (Returned /\ fetched.status = "NotFound") =>
                      /\ n = Len(variants)
                      /\ NetEvents[n].outcome = "absent"

\* the second of three requests failed and fetch returned the error
C30_Witness ==
    /\ Returned
    /\ Len(GetNameVariants(req.name)) = 3
    /\ Len(NetEvents) = 2
    /\ NetEvents[2].outcome = "error"
    /\ fetched.status = "Transport"

\* a version that is neither yanked nor a pre-release
IsNormal(v) == ~v.yanked /\ ~SemverPre[v.vers]

\* version i of the entry is normal and no normal version is higher
IsHighestNormal(i) ==
    /\ IsNormal(indexVersions[i])
    /\ \A j \in 1..Len(indexVersions) :
          IsNormal(indexVersions[j]) =>
              SemverRank[indexVersions[j].vers] <= SemverRank[indexVersions[i].vers]

\* C9: features with a version string returns the feature names of the
\* version with that string, and fails with VersionNotFound, returning no
\* list, when no version has it; without a version string it returns the
\* features of the highest normal version.
C9_FeaturesOfRequestedVersion ==
    (Returned /\ req.kind = "features" /\ fetched.status = "ok") =>
        /\ req.version # NoVersionArg =>
              /\ \A i \in 1..Len(indexVersions) :
                    indexVersions[i].vers = req.version =>
                        out = OutOk(req.version, indexVersions[i].features)
              /\ (\A i \in 1..Len(indexVersions) : indexVersions[i].vers # req.version) =>
                    out = OutErr("VersionNotFound")
        /\ req.version = NoVersionArg =>
              /\ \A i \in 1..Len(indexVersions) :
                    IsHighestNormal(i) =>
                        out = OutOk(indexVersions[i].vers, indexVersions[i].features)
              /\ (\A i \in 1..Len(indexVersions) : ~IsNormal(indexVersions[i])) =>
                    out.status # "ok"

\* features was asked for a version string that no version of a non-empty
\* entry has
C9_Witness ==
    /\ Returned
    /\ req.kind = "features"
    /\ fetched.status = "ok"
    /\ req.version # NoVersionArg
    /\ indexVersions # <<>>
    /\ \A i \in 1..Len(indexVersions) : indexVersions[i].vers # req.version
    /\ out.status = "VersionNotFound"

\* C10: latest_version returns the highest version that is neither yanked
\* nor a pre-release, and fails with NoVersions when there is none.
C10_LatestIsHighestNormal ==
    (Returned /\ req.kind = "latest_version" /\ fetched.status = "ok") =>
        /\ \A i \in 1..Len(indexVersions) :
              IsHighestNormal(i) => out = OutOk(indexVersions[i].vers, {})
        /\ (\A i \in 1..Len(indexVersions) : ~IsNormal(indexVersions[i])) =>
              out = OutErr("NoVersions")
        /\ out.status = "ok" =>
              \E i \in 1..Len(indexVersions) :
                  indexVersions[i].vers = out.version /\ IsNormal(indexVersions[i])

\* latest_version returned a version although the entry lists a higher one,
\* which is yanked
C10_Witness ==
    /\ Returned
    /\ req.kind = "latest_version"
    /\ out.status = "ok"
    /\ \E i \in 1..Len(indexVersions) :
          /\ indexVersions[i].yanked
          /\ SemverRank[indexVersions[i].vers] > SemverRank[out.version]

(***************************************************************************)
(* Claims about Crate::from_crate, checked under GraphSpec.                *)
(***************************************************************************)
\* the struct and enum items of the target package that the graph is built
\* from: listed in paths, present in the index, of the root's crate
TypeItems ==
    {p \in DOMAIN rdoc.paths \cap DOMAIN rdoc.index :
        /\ rdoc.index[p].crate_id = CrateId(rdoc)
        /\ rdoc.index[p].inner.kind \in {"struct", "enum"}}

\* the impl blocks attached to p that have no trait target
InherentBlocks(p) ==
    {i \in {rdoc.index[p].inner.impls[k] : k \in 1..Len(rdoc.index[p].inner.impls)} :
        /\ i \in DOMAIN rdoc.index
        /\ rdoc.index[i].inner.kind = "impl"
        /\ ~rdoc.index[i].inner.trait.some}

\* the named members of block i whose kind satisfies Test
MembersWhere(i, Test(_)) ==
    {m \in {rdoc.index[i].inner.items[k] : k \in 1..Len(rdoc.index[i].inner.items)} :
        /\ m \in DOMAIN rdoc.index
        /\ rdoc.index[m].name.some
        /\ Test(rdoc.index[m].inner.kind)}

IsFunction(kind) == kind = "function"
IsUnrecognized(kind) == kind # "function"

Listed(list, name) == \E x \in 1..Len(list) : list[x] = name

\* the search key of a child: the parent's, extended by the name
ExtendedSearch(search, name) == IF search = <<>> THEN name ELSE search \o Sep \o name

\* C17: in every built graph, each function member of an impl block without
\* trait target attached to a struct or enum of the package is a child item
\* of kind function with the member's name, path = parent.path::name and the
\* parent's search key extended by the name, and the parent's functions list
\* holds the name.
C17_InherentMembersAreChildren ==
    \A n \in 1..Len(built) :
        \A p \in TypeItems :
            \A i \in InherentBlocks(p) :
                \A m \in MembersWhere(i, IsFunction) :
                    LET g == built[n]
                        name == rdoc.index[m].name.val
                    IN /\ p \in DOMAIN g
                       /\ m \in DOMAIN g
                       /\ g[m].kind = "function"
                       /\ g[m].name = name
                       /\ g[m].path = g[p].path \o Sep \o name
                       /\ g[m].search = ExtendedSearch(g[p].search, name)
                       /\ Listed(g[p].functions, name)

C17_Witness ==
    /\ built # << >>
    /\ \E p \in TypeItems :
          /\ rdoc.index[p].inner.kind = "struct"
          /\ \E i \in InherentBlocks(p) : \E m \in MembersWhere(i, IsFunction) :
                built[1][m].path = JoinPath(<<A, StrS, StrG>>)
    /\ \E p \in TypeItems :
          /\ rdoc.index[p].inner.kind = "enum"
          /\ \E i \in InherentBlocks(p) : MembersWhere(i, IsFunction) # {}

\* C18: in every built graph each name in an item's functions (variants)
\* list has a child item with path parent.path::name and kind function
\* (variant), and an impl member of an unrecognized kind contributes neither
\* a child item nor a list entry.
C18_ChildListsAgree ==
    \A n \in 1..Len(built) :
        LET g == built[n]
        IN /\ \A p \in DOMAIN g :
                /\ \A x \in 1..Len(g[p].functions) :
                      \E c \in DOMAIN g :
                          /\ g[c].path = g[p].path \o Sep \o g[p].functions[x]
                          /\ g[c].kind = "function"
                /\ \A x \in 1..Len(g[p].variants) :
                      \E c \in DOMAIN g :
                          /\ g[c].path = g[p].path \o Sep \o g[p].variants[x]
                          /\ g[c].kind = "variant"
           /\ \A p \in TypeItems : \A i \in InherentBlocks(p) :
                \A m \in MembersWhere(i, IsUnrecognized) :
                    /\ m \notin DOMAIN g
                    /\ Listed(g[p].functions, rdoc.index[m].name.val) =>
                          \E f \in MembersWhere(i, IsFunction) :
                              rdoc.index[f].name = rdoc.index[m].name

\* two graphs agree, id by id, on path, search key, kind and child lists
SameGraph(g, h) ==
    /\ DOMAIN g = DOMAIN h
    /\ \A id \in DOMAIN g :
          /\ g[id].path = h[id].path
          /\ g[id].search = h[id].search
          /\ g[id].kind = h[id].kind
          /\ g[id].functions = h[id].functions
          /\ g[id].variants = h[id].variants
          /\ g[id].trait_impls = h[id].trait_impls

\* C19: the graphs built from one document agree, id by id, whatever the
\* order in which the document's paths and the items were visited.
C19_BuildIsDeterministic ==
    \A n, k \in 1..Len(built) : SameGraph(built[n], built[k])

C19_Witness ==
    /\ Len(built) > 1
    /\ \E p, q \in TypeItems :
          /\ p # q
          /\ built[1][p].functions # << >>
          /\ built[1][q].functions # << >>
          /\ built[1][q].variants # << >>
    /\ Cardinality(DOMAIN built[1] \ DOMAIN rdoc.paths) > 1

\* the six child-name lists of an item
ChildLists(item) ==
    <<item.functions, item.variants, item.traits, item.trait_impls, item.structs,
      item.enums>>

\* each element is less than the next
StrictlyAscending(list) ==
    \A x \in 1..(Len(list) - 1) : StrLess(list[x], list[x + 1])

\* C24: in every built graph each of the six child-name lists of each item
\* is in strictly ascending order, so it is sorted and holds no name twice.
C24_ChildListsSorted ==
    \A n \in 1..Len(built) :
        \A id \in DOMAIN built[n] :
            \A l \in 1..6 : StrictlyAscending(ChildLists(built[n][id])[l])

\* S has the functions f and g in one impl block and f again in another:
\* the names were pushed as f, g, f
C24_Witness ==
    /\ built # << >>
    /\ {"m1", "m2", "m4"} \subseteq DOMAIN rdoc.index
    /\ ~rdoc.index["i1"].inner.trait.some
    /\ rdoc.index["m1"].name = Named(StrF)
    /\ rdoc.index["m2"].name = Named(StrG)
    /\ rdoc.index["m4"].name = Named(StrF)
    /\ built[1]["S"].functions = <<StrF, StrG>>
    /\ "E" \in DOMAIN built[1]
    /\ built[1]["E"].functions = <<StrK>>

\* the impl blocks attached to p that have a trait target
TraitBlocks(p) ==
    {i \in {rdoc.index[p].inner.impls[k] : k \in 1..Len(rdoc.index[p].inner.impls)} :
        /\ i \in DOMAIN rdoc.index
        /\ rdoc.index[i].inner.kind = "impl"
        /\ rdoc.index[i].inner.trait.some}

\* every named member of block i
AnyKind(kind) == TRUE

\* C25: in every built graph, for each struct or enum of the package and
\* each impl block attached to it that has a trait target, the parent's
\* trait_impls list holds the trait's name, no member of the block is an
\* item of the graph, and every name of the parent's functions list is the
\* name of a member of one of its impl blocks without trait target.
C25_TraitBlocksAddOnlyTheTrait ==
    \A n \in 1..Len(built) :
        \A p \in TypeItems :
            LET g == built[n]
            IN /\ \A i \in TraitBlocks(p) :
                     /\ Listed(g[p].trait_impls, rdoc.index[i].inner.trait.val)
                     /\ \A m \in MembersWhere(i, AnyKind) : m \notin DOMAIN g
               /\ \A x \in 1..Len(g[p].functions) :
                     \E i \in InherentBlocks(p) : \E m \in MembersWhere(i, AnyKind) :
                         rdoc.index[m].name.val = g[p].functions[x]
               /\ \A x \in 1..Len(g[p].trait_impls) :
                     \E i \in TraitBlocks(p) :
                         rdoc.index[i].inner.trait.val = g[p].trait_impls[x]

\* S implements T in a block with two function members and has a function
\* of its own in another block
C25_Witness ==
    /\ built # << >>
    /\ "i1" \in TraitBlocks("S")
    /\ Cardinality(MembersWhere("i1", IsFunction)) = 2
    /\ built[1]["S"].trait_impls = <<StrT>>
    /\ built[1]["S"].functions = <<StrF>>
    /\ "m4" \in DOMAIN built[1]

\* C26: in every built graph, for every item of the item map the path index
\* holds the item's path and lists the item's id under it, and every id the
\* path index lists is a key of the item map.
C26_PathIndexComplete ==
    phase = "built" =>
        /\ \A id \in DOMAIN processed_items :
              /\ processed_items[id].path \in DOMAIN processed_paths
              /\ \E x \in 1..Len(processed_paths[processed_items[id].path]) :
                    processed_paths[processed_items[id].path][x] = processed_items[id].id
        /\ \A q \in DOMAIN processed_paths :
              \A x \in 1..Len(processed_paths[q]) :
                  processed_paths[q][x] \in DOMAIN processed_items

(***************************************************************************)
(* Claims about Server::read_resource, checked under RouteSpec.            *)
(***************************************************************************)
DocsUri(name) == Scheme \o <<"crate", "/">> \o name \o <<"/", "docs">>
InfoUri(name) == Scheme \o <<"crate", "/">> \o name \o <<"/", "info">>
MetadataUri == Scheme \o <<"project", "/", "metadata">>
VersionQuery(v) == <<"?", "version", "=">> \o v

\* the URI has one of the three resource shapes
HasResourceShape(u) ==
    \/ u = MetadataUri
    \/ \E name \in Segments \ {<<>>} :
          \/ u = DocsUri(name)
          \/ u = InfoUri(name)
          \/ \E v \in {<<"1">>} : u = DocsUri(name) \o VersionQuery(v)

\* C27: read_resource dispatches cargo://crate/{name}/docs?version=V to
\* get_docs for {name} with version V and cargo://crate/{name}/docs to
\* get_docs for {name} without a version, and answers "Invalid resource
\* path" only for a URI that has none of the three resource shapes.
C27_VersionParameterRouted ==
    routed # NoRoute =>
        /\ \A name \in Segments \ {<<>>} :
              /\ uri = DocsUri(name) => routed = ToDocs(name, NoVersion)
              /\ \A v \in {<<"1">>} :
                    uri = DocsUri(name) \o VersionQuery(v) =>
                        routed = ToDocs(name, SomeVersion(v))
        /\ routed = InvalidResourcePath => ~HasResourceShape(uri)

(***************************************************************************)
(* Claims about RustdocProvider and the tools, checked under DocsSpec.     *)
(***************************************************************************)
\* the key the specification names: name + ":" + version, "*" without one
LiteralKey(t) ==
    dreq[t].name \o <<":">> \o
        (IF dreq[t].version.some THEN dreq[t].version.val ELSE <<"*">>)

\* task t is in a get_crate_docs call that looked and found / did not find
Hit(t) == dreq[t].tool = "search_crate" /\ dheld[t].some
Built(t) ==
    /\ dreq[t].tool = "search_crate"
    /\ dpc[t] = "done"
    /\ ~dheld[t].some
    /\ dret[t].ok

\* C11: when the provider's cache holds a graph under name:version at the
\* moment get_crate_docs looks, the call returns that graph at once: it has
\* created no directory, written no manifest, and started neither cargo
\* vendor nor rustdoc.
C11_CacheHitSkipsPipeline ==
    \A t \in Tasks :
        Hit(t) =>
            /\ dpc[t] = "done"
            /\ dret[t] = DocOk(dheld[t].val)
            /\ dfx[t] = {}

C11_Witness ==
    \E t \in Tasks : Hit(t) /\ dpc[t] = "done" /\ dret[t].ok /\ dfx[t] = {}

\* the places of the inserts under key k
InsertsOf(k) == {i \in 1..Len(inserts) : inserts[i].key = k}

\* the latest of a set of places
Latest(S) == CHOOSE i \in S : \A j \in S : j <= i

C14_ValidationPrecedesProcesses ==
    \A t \in Tasks :
        /\ dreq[t].tool \in {"crate_info", "crate_docs", "search_crate"}
        /\ dfx[t] \cap Processes # {}
        => ValidCrateName(dreq[t].name)

\* C15: search_crate returns an error result exactly when get_crate_docs
\* failed, and a success result carries what the obtained graph gave;
\* crates_io_latest_version and crates_io_features return an error result
\* whenever the registry lookup failed.
C15_FailuresStayErrors ==
    \A t \in Tasks :
        dpc[t] = "done" =>
            /\ dreq[t].tool = "search_crate" =>
                  /\ tret[t].is_error <=> ~dret[t].ok
                  /\ ~tret[t].is_error =>
                        tret[t].graph = dret[t].graph /\ dret[t].graph # NoGraph
            /\ dreq[t].tool \in {"crates_io_latest_version", "crates_io_features"} =>
                  (~dret[t].ok => tret[t].is_error)

C15_Witness ==
    /\ \E t \in Tasks :
          /\ dreq[t].tool = "search_crate" /\ dpc[t] = "done"
          /\ ~dret[t].ok /\ tret[t].is_error
    /\ \E t \in Tasks :
          /\ dreq[t].tool = "crates_io_features" /\ dpc[t] = "done"
          /\ ~dret[t].ok /\ tret[t].is_error

\* C16: whenever the generated document declares a format_version other than
\* the expected one, generate_rustdoc_json has failed with the
\* format-version-mismatch error.
C16_FormatMismatchReported ==
    \A t \in Tasks :
        /\ dreq[t].doc.built /\ dreq[t].doc.readable /\ dreq[t].doc.json
        /\ dreq[t].doc.format_version = "other"
        => /\ dpc[t] = "done"
           /\ ~dret[t].ok
           /\ dret[t].err = "rustdoc JSON format version mismatch"

\* the errors a step of the pipeline returns when the file system, cargo or
\* rustdoc fails
PipelineErrors ==
    {"Failed to create temp dir", "Failed to write Cargo.toml",
     "Failed to create src dir", "Failed to write lib.rs",
     "Failed to run cargo vendor", "cargo vendor failed",
     "Failed to read vendor dir", "Could not find vendored crate",
     "Failed to generate rustdoc JSON", "Failed to read JSON file",
     "Failed to parse rustdoc JSON", "rustdoc JSON format version mismatch"}

\* two calls for one key have both missed and both built
RacedSameKey(t, u) ==
    /\ t # u
    /\ Built(t) /\ Built(u)
    /\ LiteralKey(t) = LiteralKey(u)

\* after a same-key race the cache holds the graph of the later insert
LaterInsertWins ==
    \A t, u \in Tasks :
        RacedSameKey(t, u) =>
            /\ dret[t].graph # dret[u].graph
            /\ LiteralKey(t) \in DOMAIN docs_cache
            /\ docs_cache[LiteralKey(t)] = inserts[Latest(InsertsOf(LiteralKey(t)))].graph
            /\ docs_cache[LiteralKey(t)] \in {dret[t].graph, dret[u].graph}

\* a get_crate_docs call fails only with the error of a failed step
OnlyStepsFail ==
    \A t \in Tasks :
        dreq[t].tool = "search_crate" /\ dpc[t] = "done" =>
            dret[t].ok \/ dret[t].err \in PipelineErrors

\* C20: two concurrent get_crate_docs calls for one uncached key may both
\* miss and both run the pipeline; every call under way completes (no
\* deadlock), a call fails only when one of its steps fails and otherwise
\* returns a graph, and once both have returned the cache holds one entry
\* for the key, the graph of the later insert.
C20_SameKeyRace ==
    /\ [](LaterInsertWins /\ OnlyStepsFail)
    /\ \A t \in Tasks : (dpc[t] \notin {"idle", "done"}) ~> (dpc[t] = "done")

C20_Witness == \E t, u \in Tasks : RacedSameKey(t, u)

\* the steps of get_crate_docs between the lookup and the insert
BetweenLookupAndInsert == {"workspace", "vendor", "find", "generate", "lock_insert"}

\* C21: the provider's Mutex is held by a task only while that task is at
\* the lookup or at the insert of get_crate_docs, never while it prepares the
\* build directory, vendors, looks for the vendored crate or generates the
\* documentation; so whenever a call is between lookup and insert, the Mutex
\* is free or held by another call that is at its lookup or insert.
C21_LockScope ==
    /\ \A t \in Tasks : lock = t => dpc[t] \in {"get", "insert"}
    /\ \A t \in Tasks :
          dpc[t] \in BetweenLookupAndInsert =>
              \/ lock = Free
              \/ \E u \in Tasks \ {t} : lock = u /\ dpc[u] \in {"get", "insert"}

C21_Witness ==
    \E t, u \in Tasks :
        /\ t # u
        /\ dpc[t] \in {"workspace", "vendor", "find", "generate"}
        /\ dpc[u] = "get"
        /\ lock = u

\* a get_crate_docs call of task t has returned an error
FailedCall(t) ==
    /\ dreq[t].tool = "search_crate"
    /\ dpc[t] = "done"
    /\ ~dret[t].ok

\* the call of task t has inserted a graph
InsertedBy(t) == \E i \in 1..Len(inserts) : inserts[i].graph.build = dreq[t].id

\* rustdoc left a document that deserializes as a Crate
Usable(d) == d.built /\ d.readable /\ DeserializesAsCrate(d)

\* C22: a get_crate_docs call whose generated document is unusable has
\* failed; a failed call returns an error result, has inserted nothing and
\* holds no lock; when the temporary workspace failed nothing was vendored,
\* and when vendoring or the search for the vendored directory failed rustdoc
\* was never started; and the cache holds a key only through an insert, so a
\* later lookup of a key whose calls all failed misses.
C22_FailureLeavesNoTrace ==
    /\ \A t \in Tasks :
          /\ dreq[t].tool = "search_crate"
          /\ "rustdoc" \in dfx[t]
          /\ ~Usable(dreq[t].doc)
          => FailedCall(t)
    /\ \A t \in Tasks :
          FailedCall(t) =>
              /\ tret[t].is_error
              /\ ~InsertedBy(t)
              /\ lock # t
              /\ dret[t].err \in {"Failed to create temp dir", "Failed to write Cargo.toml",
                                  "Failed to create src dir", "Failed to write lib.rs"}
                    => dfx[t] \cap Processes = {}
              /\ dret[t].err \in {"Failed to run cargo vendor", "cargo vendor failed",
                                  "Failed to read vendor dir", "Could not find vendored crate"}
                    => "rustdoc" \notin dfx[t]
    /\ \A k \in DOMAIN docs_cache : InsertsOf(k) # {}
    /\ \A t \in Tasks : Hit(t) => InsertsOf(LiteralKey(t)) # {}

C22_Witness ==
    \E t, u \in Tasks :
        /\ t # u
        /\ FailedCall(t)
        /\ dret[t].err = "cargo vendor failed"
        /\ dreq[u].tool = "search_crate"
        /\ dreq[u].id > dreq[t].id
        /\ LiteralKey(u) = LiteralKey(t)
        /\ dpc[u] = "workspace"
        /\ ~dheld[u].some

=============================================================================
